---- MODULE Spec2Model ----
(***************************************************************************)
(* Model of the portfolio server of nouixz/Docker-Projects.                *)
(*                                                                         *)
(* The repository holds two revisions of the server entry point:           *)
(*   "nodesite"  src/My-Nodesite/server.js (lines 1-634)                   *)
(*   "part002"   src/unnamed/part_002                                      *)
(* The variable `server` says which revision is running; every handler is  *)
(* translated once per revision where the two differ.                      *)
(*                                                                         *)
(* Time is Date.now() in milliseconds; the clock moves in steps of one     *)
(* second.  Random tokens (makeSid, crypto.randomBytes) are fresh values   *)
(* drawn from a counter.                                                   *)
(***************************************************************************)
EXTENDS Integers, Sequences, FiniteSets, TLC

\* ------------------------------------------------------------------ bounds
MaxTime == 1        \* the clock runs from 0 to MaxTime seconds
MaxTTL == 1         \* SESSION_TTL_SECONDS is configured in 0..MaxTTL
MaxStates == 2      \* login starts per behaviour (state tokens issued)
MaxCalls == 2       \* OAuth callback requests per behaviour
MaxReqs == 2        \* /api/projects requests per behaviour
MaxBeacons == 2     \* view beacons per behaviour
MaxDays == 1        \* the calendar runs from day 0 to day MaxDays

\* ------------------------------------------------------- program constants
MsPerSecond == 1000

VARIABLES
  server,                \* which revision of server.js runs
  GITHUB_CLIENT_ID,      \* TRUE when the environment sets a non-empty value
  GITHUB_CLIENT_SECRET,  \* TRUE when the environment sets a non-empty value
  ADMIN_GITHUB_USER,     \* the allow-listed name, lower-cased; <<>> when unset
  SESSION_TTL_SECONDS,
  now,                   \* Date.now()
  sessions,              \* Map sid -> [user, exp]
  oauthStates,           \* Set of pending state tokens
  nextState,             \* next fresh state token
  nextSid,               \* next fresh session id
  calls,                 \* the callback requests received, in arrival order
  resp,                  \* the response to the last synchronous request
  pgClient,              \* TRUE when the relational backend is in use
  file,                  \* data/projects.json: [exists, list]
  table,                 \* the rows of the projects table
  nextUuid,              \* next fresh crypto.randomUUID()
  reqs,                  \* the /api/projects requests received, in arrival order
  metrics_daily,         \* table metrics_daily: <<day, page>> -> [views, uniques]
  metrics_uniques,       \* table metrics_uniques: set of <<day, page, vid>>
  beacons,               \* the view beacons received, in arrival order
  nextVid,               \* next fresh visitor id (crypto.randomBytes(12))
  summary,               \* the summary request in flight or last answered
  boot,                  \* initDatabase(): [url, pc, attempts, connected, left]
  wizard,                \* the setup script's run and the .env file it writes
  client                 \* the page in the browser: location.hash and sections

vars == << server, GITHUB_CLIENT_ID, GITHUB_CLIENT_SECRET, ADMIN_GITHUB_USER,
           SESSION_TTL_SECONDS, now, sessions, oauthStates, nextState, nextSid,
           calls, resp, pgClient, file, table, nextUuid, reqs, metrics_daily,
           metrics_uniques, beacons, nextVid, summary, boot, wizard, client >>

metricVars == << metrics_daily, metrics_uniques, beacons, nextVid, summary >>

authVars == << sessions, oauthStates, nextState, nextSid, calls, resp >>

projVars == << file, table, nextUuid, reqs >>

config == << server, GITHUB_CLIENT_ID, GITHUB_CLIENT_SECRET, ADMIN_GITHUB_USER,
             SESSION_TTL_SECONDS, pgClient, boot, wizard, client >>

Servers == {"nodesite", "part002"}

\* ------------------------------------------------------------------ strings
\* A user name is a sequence of characters over a two-letter alphabet; the
\* answers typed at a prompt use the letters of yes and no, and the space.
UpperCase == << "A", "B", "Y", "E", "S", "N" >>

LowerCase == << "a", "b", "y", "e", "s", "n" >>

LowerChar ==
  [ c \in { UpperCase[i] : i \in 1..Len(UpperCase) }
           \cup { LowerCase[i] : i \in 1..Len(LowerCase) } \cup {" "} |->
      IF \E i \in 1..Len(UpperCase) : UpperCase[i] = c
        THEN LowerCase[CHOOSE i \in 1..Len(UpperCase) : UpperCase[i] = c]
        ELSE c ]

\* String.prototype.toLowerCase
toLowerCase(s) == [i \in 1..Len(s) |-> LowerChar[s[i]]]

\* The logins the identity provider can report.
Usernames == { <<"A", "B">>, <<"b", "a">> }

\* The values the environment can give ADMIN_GITHUB_USER ("" when unset).
AdminEnv == { <<>>, <<"A", "b">> }

\* ------------------------------------------------------------------ cookies
NoSid == 0          \* the request carries no sid cookie
NoMaxAge == -1      \* the cookie string has no Max-Age attribute

\* cookie(name, val, opts): Max-Age is written only when opts.maxAge is truthy
cookie(name, val, maxAge) ==
  [ name |-> name, val |-> val, path |-> "/", httpOnly |-> TRUE,
    sameSite |-> "Lax",
    maxAge |-> IF maxAge # 0 THEN maxAge ELSE NoMaxAge ]

\* redirect(res, location, cookies)
redirect(location, cookies) ==
  [ status |-> 302, location |-> location, cookies |-> cookies ]

\* ----------------------------------------------------------- session store
None == [ none |-> TRUE ]

LegacySession == [ user |-> <<"local">>, legacy |-> TRUE ]

\* A request's cookies: sid (NoSid when absent) and the legacy `session=1` flag.
Cookies == [ sid : 0..(MaxCalls + 1), session1 : BOOLEAN ]

\* getSession(req)
getSession(ck) ==
  IF ck.sid # NoSid /\ ck.sid \in DOMAIN sessions /\ sessions[ck.sid].exp > now
    THEN sessions[ck.sid]
    ELSE IF server = "part002" /\ ck.session1
           THEN LegacySession
           ELSE None

isAuthed(ck) == getSession(ck) # None

\* ------------------------------------------------- outbound calls (provider)
\* What the identity provider's endpoint can do to an outbound call: the
\* connection fails, the body is not JSON, the body is the JSON value null, or
\* the body is a JSON object (with or without access_token / login).
RawKinds == {"neterr", "badjson", "null", "object"}

Raw(kind, tok, login) == [ kind |-> kind, access_token |-> tok, login |-> login ]

NoRaw == Raw("none", FALSE, <<>>)

TokenRaws == { Raw("neterr", FALSE, <<>>), Raw("badjson", FALSE, <<>>),
               Raw("null", FALSE, <<>>), Raw("object", FALSE, <<>>),
               Raw("object", TRUE, <<>>) }

UserRaws == { Raw("neterr", FALSE, <<>>), Raw("badjson", FALSE, <<>>),
              Raw("null", FALSE, <<>>), Raw("object", FALSE, <<>>) }
            \cup { Raw("object", FALSE, u) : u \in Usernames }

Resolved(type, raw) ==
  [ settled |-> "resolved", type |-> type,
    access_token |-> raw.access_token, login |-> raw.login ]

Rejected == [ settled |-> "rejected", type |-> "null",
              access_token |-> FALSE, login |-> <<>> ]

\* httpsPostJSON / httpsGetJSON: the promise the helper returns.  nodesite
\* resolves an unparsable body to { raw: data }; part002 rejects on it.
httpsJSON(raw) ==
  CASE raw.kind = "neterr"  -> Rejected
    [] raw.kind = "badjson" -> IF server = "nodesite"
                                 THEN Resolved("object", Raw("object", FALSE, <<>>))
                                 ELSE Rejected
    [] raw.kind = "null"    -> Resolved("null", Raw("null", FALSE, <<>>))
    [] OTHER                -> Resolved("object", raw)

httpsPostJSON(raw) == httpsJSON(raw)

httpsGetJSON(raw) == httpsJSON(raw)

\* ------------------------------------------------------------- OAuth flow
NoState == 0        \* the query string has no (or an empty) state parameter

\* The state values a callback can present: none, an issued token, or a
\* value no login start ever issues.
StateParams == 0..(MaxStates + 1)

LoginError(tag) == redirect(<<"/?login=1&error=", tag>>, <<>>)

\* if (!code || !state || !oauthStates.has(state))
StateRejected(hasCode, state) ==
  ~hasCode \/ state = NoState \/ state \notin oauthStates

\* (mutant) the consumed token is left in the pending set
ConsumeState_kept(state) == oauthStates

\* oauthStates.delete(state)
ConsumeState(state) == oauthStates \ {state}

\* (mutant) the allow-list comparison is dropped
NotAllowed_skipped(username) == FALSE

\* ADMIN_GITHUB_USER && username.toLowerCase() !== ADMIN_GITHUB_USER
NotAllowed(username) ==
  ADMIN_GITHUB_USER # <<>> /\ toLowerCase(username) # ADMIN_GITHUB_USER

\* exp: Date.now() + SESSION_TTL_SECONDS * 1000
SessionExp == now + SESSION_TTL_SECONDS * MsPerSecond

NewSession(username) ==
  [ user |-> [ provider |-> "github", username |-> username ],
    exp |-> SessionExp ]

Call(state, hasCode, pc, out) ==
  [ state |-> state, hasCode |-> hasCode, pc |-> pc, tokenRaw |-> NoRaw,
    userRaw |-> NoRaw, out |-> out, sid |-> NoSid, at |-> 0 ]

\* (mutant) the response is written but the handler does not return
Finish_noReturn(c, response) == [ c EXCEPT !.out = Append(@, response) ]

\* return redirect(res, ...): the response is written and the handler ends
Finish(c, response) == [ c EXCEPT !.pc = "done", !.out = Append(@, response) ]

\* A request path: its fixed part and the project id that follows it
Path(base, id) == [ base |-> base, id |-> id ]

NoPath == Path("", <<>>)

Resp(route, status, location, state, authed, ck) ==
  [ route |-> route, status |-> status, location |-> location, state |-> state,
    authed |-> authed, sid |-> ck.sid, session1 |-> ck.session1, at |-> now,
    cookies |-> <<>>, method |-> "", path |-> NoPath, target |-> <<>>,
    served |-> <<>>, user |-> None ]

NoCookies == [ sid |-> NoSid, session1 |-> FALSE ]

\* GET /auth/github (nodesite), GET /auth/github/login (part002)
LoginStart ==
  /\ nextState <= MaxStates
  /\ IF server = "nodesite" /\ ~GITHUB_CLIENT_ID
       THEN /\ resp' = Resp("login", 400, <<>>, NoState, FALSE, NoCookies)
            /\ UNCHANGED << oauthStates, nextState >>
       ELSE IF server = "part002" /\ (~GITHUB_CLIENT_ID \/ ~GITHUB_CLIENT_SECRET)
         THEN /\ resp' = Resp("login", 500, <<>>, NoState, FALSE, NoCookies)
              /\ UNCHANGED << oauthStates, nextState >>
         ELSE /\ oauthStates' = oauthStates \cup {nextState}
              /\ nextState' = nextState + 1
              /\ resp' = Resp("login", 302, <<"authorize">>, nextState, FALSE, NoCookies)
  /\ UNCHANGED << config, metricVars, now, sessions, nextSid, calls, projVars >>

\* /auth/github/callback up to the first await
CallbackArrive(state, hasCode) ==
  /\ Len(calls) < MaxCalls
  /\ IF StateRejected(hasCode, state)
       THEN /\ calls' = Append(calls,
                 Call(state, hasCode, "done", << LoginError("oauth_state") >>))
            /\ UNCHANGED oauthStates
       ELSE /\ oauthStates' = ConsumeState(state)
            /\ calls' = Append(calls, Call(state, hasCode, "token", <<>>))
  /\ UNCHANGED << config, metricVars, now, sessions, nextState, nextSid, resp, projVars >>

\* /auth/github/callback from the token exchange to the second await
TokenResponse(i, raw) ==
  /\ i \in 1..Len(calls)
  /\ calls[i].pc = "token"
  /\ LET p == httpsPostJSON(raw)
         c == [ calls[i] EXCEPT !.tokenRaw = raw ]
     IN calls' = [ calls EXCEPT ![i] =
          IF p.settled = "rejected" \/ p.type = "null"
            THEN Finish(c, LoginError("oauth_error"))
            ELSE IF ~p.access_token
              THEN Finish(c, LoginError("oauth_token"))
              ELSE [ c EXCEPT !.pc = "user" ] ]
  /\ UNCHANGED << config, metricVars, now, sessions, oauthStates, nextState, nextSid, resp,
                  projVars >>

\* /auth/github/callback from the profile fetch to the end
UserResponse(i, raw) ==
  /\ i \in 1..Len(calls)
  /\ calls[i].pc = "user"
  /\ LET p == httpsGetJSON(raw)
         c == [ calls[i] EXCEPT !.userRaw = raw ]
         username == IF p.type = "object" THEN p.login ELSE <<>>
     IN IF p.settled = "rejected"
          THEN /\ calls' = [ calls EXCEPT ![i] = Finish(c, LoginError("oauth_error")) ]
               /\ UNCHANGED << sessions, nextSid >>
          ELSE IF username = <<>>
            THEN /\ calls' = [ calls EXCEPT ![i] = Finish(c, LoginError("oauth_user")) ]
                 /\ UNCHANGED << sessions, nextSid >>
            ELSE IF NotAllowed(username)
              THEN /\ calls' = [ calls EXCEPT ![i] =
                                   Finish(c, LoginError("unauthorized")) ]
                   /\ UNCHANGED << sessions, nextSid >>
              ELSE /\ sessions' = sessions @@ (nextSid :> NewSession(username))
                   /\ nextSid' = nextSid + 1
                   /\ calls' = [ calls EXCEPT ![i] =
                        Finish([ c EXCEPT !.sid = nextSid, !.at = now ],
                               redirect(<<"/">>, << cookie("sid", nextSid,
                                                       SESSION_TTL_SECONDS) >>)) ]
  /\ UNCHANGED << config, metricVars, now, oauthStates, nextState, resp, projVars >>

\* GET /logout (part002) deletes the session; POST /auth/logout (nodesite)
\* only answers with an emptied sid cookie.
Logout(ck) ==
  /\ IF server = "part002"
       THEN /\ sessions' = IF ck.sid # NoSid
                             THEN [ s \in DOMAIN sessions \ {ck.sid} |-> sessions[s] ]
                             ELSE sessions
            /\ resp' = [ Resp("logout", 302, <<"/login">>, NoState, isAuthed(ck), ck)
                           EXCEPT !.cookies = << cookie("session", 0, 0),
                                                 cookie("sid", 0, 0) >> ]
       ELSE /\ sessions' = sessions
            /\ resp' = [ Resp("logout", 200, <<>>, NoState, isAuthed(ck), ck)
                           EXCEPT !.cookies = << cookie("sid", 0, 0) >> ]
  /\ UNCHANGED << config, metricVars, now, oauthStates, nextState, nextSid, calls, projVars >>

\* GET /api/me: { authed, user } of the session getSession finds
Me(ck) ==
  /\ resp' = [ Resp("me", 200, <<>>, NoState, isAuthed(ck), ck)
                 EXCEPT !.user = IF isAuthed(ck) THEN getSession(ck).user
                                 ELSE None ]
  /\ UNCHANGED << config, metricVars, now, sessions, oauthStates, nextState, nextSid, calls,
                  projVars >>

\* The clock advances by one second.
Tick ==
  /\ now < MaxTime * MsPerSecond
  /\ now' = now + MsPerSecond
  /\ UNCHANGED << config, metricVars, authVars, projVars >>

\* ----------------------------------------------------------------- start-up
\* initDatabase() runs once when the module is loaded and is not awaited:
\* url says whether DATABASE_URL (and the pg module) is there, attempts
\* counts the calls of pgClient.connect(), connected says whether one of
\* them resolved, left counts the create-table statements still to run.
Boot(url, pc, attempts, connected, left) ==
  [ url |-> url, pc |-> pc, attempts |-> attempts, connected |-> connected,
    left |-> left ]

\* Start-up is over: the database, when one is configured, is connected.
Booted == Boot(pgClient, "done", IF pgClient THEN 1 ELSE 0, pgClient, 0)

\* create table if not exists ...: projects and views (nodesite); projects,
\* metrics_daily and metrics_uniques (part002)
TableCount == IF server = "nodesite" THEN 2 ELSE 3

\* initDatabase() up to `await pgClient.connect()`
BootStart ==
  /\ boot.pc = "start"
  /\ IF ~boot.url
       THEN /\ boot' = [ boot EXCEPT !.pc = "done" ]
            /\ UNCHANGED pgClient
       ELSE /\ pgClient' = TRUE
            /\ boot' = [ boot EXCEPT !.pc = "connect", !.attempts = @ + 1 ]
  /\ UNCHANGED << server, GITHUB_CLIENT_ID, GITHUB_CLIENT_SECRET,
                  ADMIN_GITHUB_USER, SESSION_TTL_SECONDS, wizard, client,
                  metricVars, now,
                  authVars, projVars >>

\* What initDatabase does when connect or a statement rejects: nodesite
\* catches, logs and sets pgClient = null; part002 lets the promise reject
\* (logged at the call) and pgClient stays the client that failed.
BootFailed ==
  /\ boot' = [ boot EXCEPT !.pc = "failed" ]
  /\ pgClient' = (server # "nodesite")

\* pgClient.connect() resolves (ok) or rejects.
BootConnect(ok) ==
  /\ boot.pc = "connect"
  /\ IF ok
       THEN /\ boot' = [ boot EXCEPT !.pc = "tables", !.connected = TRUE,
                                     !.left = TableCount ]
            /\ UNCHANGED pgClient
       ELSE BootFailed
  /\ UNCHANGED << server, GITHUB_CLIENT_ID, GITHUB_CLIENT_SECRET,
                  ADMIN_GITHUB_USER, SESSION_TTL_SECONDS, wizard, client,
                  metricVars, now,
                  authVars, projVars >>

\* One create-table statement resolves (ok) or rejects.
BootTable(ok) ==
  /\ boot.pc = "tables"
  /\ IF ok
       THEN /\ boot' = [ boot EXCEPT !.left = @ - 1,
                                     !.pc = IF boot.left = 1 THEN "done" ELSE @ ]
            /\ UNCHANGED pgClient
       ELSE BootFailed
  /\ UNCHANGED << server, GITHUB_CLIENT_ID, GITHUB_CLIENT_SECRET,
                  ADMIN_GITHUB_USER, SESSION_TTL_SECONDS, wizard, client,
                  metricVars, now,
                  authVars, projVars >>

\* --------------------------------------------------------- project storage
\* Strings that the code takes apart (ids, tag lists) are sequences of
\* characters; other strings are atoms.
NoId == <<>>

SeedId == <<"s">>

IdA == <<"a">>

\* .toLowerCase().replace(/[^a-z0-9-_]/g, "-"), one character at a time
SanitizeChar(c) ==
  IF c \in DOMAIN LowerChar THEN LowerChar[c]
  ELSE IF c \in {" ", "!", "/"} THEN "-" ELSE c

Sanitize(id) == [ k \in 1..Len(id) |-> SanitizeChar(id[k]) ]

RECURSIVE SplitOn(_, _)
\* String.prototype.split at every single separator character
SplitOn(str, seps) ==
  IF \E k \in 1..Len(str) : str[k] \in seps
    THEN LET k == CHOOSE k \in 1..Len(str) :
                    str[k] \in seps /\ \A j \in 1..(k - 1) : str[j] \notin seps
         IN << SubSeq(str, 1, k - 1) >> \o SplitOn(SubSeq(str, k + 1, Len(str)), seps)
    ELSE << str >>

NonEmpty(x) == x # <<>>

\* str.split(/[,\s]+/).filter(Boolean)
SplitTags(str) == SelectSeq(SplitOn(str, {",", " "}), NonEmpty)

RECURSIVE Join(_)
\* Array.prototype.join(',')
Join(list) ==
  IF list = <<>> THEN <<>>
  ELSE IF Len(list) = 1 THEN list[1]
  ELSE list[1] \o <<",">> \o Join(Tail(list))

TagList(v) == [ kind |-> "list", v |-> v ]

TagString(v) == [ kind |-> "string", v |-> v ]

Has(data, f) == f \in DOMAIN data

\* data.f || dflt, for a string field
OrElse(data, f, dflt) == IF Has(data, f) /\ data[f] # "" THEN data[f] ELSE dflt

\* The tags of a new project
NewTags(data) ==
  IF ~Has(data, "tags") THEN TagList(<<>>)
  ELSE IF data.tags.kind = "list" THEN data.tags
  ELSE IF data.tags.v = <<>> THEN TagList(<<>>)
  ELSE IF server = "nodesite" THEN TagList(SplitOn(data.tags.v, {","}))
  ELSE TagList(SplitTags(data.tags.v))

\* crypto.randomUUID() (nodesite), `${Date.now()}` (part002)
GeneratedId == IF server = "nodesite" THEN <<"uuid", ToString(nextUuid)>>
               ELSE << ToString(now) >>

\* The id of a new project
NewId(data) ==
  LET raw == IF Has(data, "id") /\ data.id # NoId THEN data.id ELSE GeneratedId
  IN IF server = "nodesite" THEN raw ELSE Sanitize(raw)

\* The project record POST /api/projects builds from the parsed body
NewItem(data) ==
  [ id |-> NewId(data),
    name |-> OrElse(data, "name", "Untitled"),
    description |-> OrElse(data, "description", ""),
    repoUrl |-> OrElse(data, "repoUrl", ""),
    websiteUrl |-> OrElse(data, "websiteUrl", ""),
    type |-> OrElse(data, "type", "other"),
    tags |-> NewTags(data),
    status |-> OrElse(data, "status", "active"),
    featured |-> Has(data, "featured") /\ data.featured,
    image |-> OrElse(data, "image", ""),
    createdAt |-> now,
    updatedAt |-> now ]

\* The seed record ensureDataFile writes when the file is missing
Seed ==
  [ id |-> SeedId, name |-> "Sample Portfolio Site", description |-> "demo",
    repoUrl |-> "https://github.com/you/portfolio",
    websiteUrl |-> "https://example.com", type |-> "web",
    tags |-> TagList(<< <<"t">>, <<"v">>, <<"u">> >>), status |-> "active",
    createdAt |-> now, updatedAt |-> now, featured |-> TRUE ]

NoFile == [ exists |-> FALSE, list |-> <<>> ]

\* (mutant) the write leaves the document as it was
FileOf_kept(list) == file

FileOf(list) == [ exists |-> TRUE, list |-> list ]

\* ensureDataFile: the file as it is once the call returns
ensureDataFile == IF file.exists THEN file ELSE FileOf(<< Seed >>)

\* The row a project is stored as: tags joined into one string
RowOf(item) == [ item EXCEPT !.tags = TagString(Join(item.tags.v)) ]

\* The rows of S in descending order of key
SortedDesc(S, column) ==
  CHOOSE seq \in [ 1..Cardinality(S) -> S ] :
    /\ \A j, k \in 1..Cardinality(S) : j # k => seq[j] # seq[k]
    /\ \A j, k \in 1..Cardinality(S) : j < k => seq[j][column] >= seq[k][column]

\* readProjects(): what a list request reads.  nodesite orders the rows by
\* updated_at and returns tags as stored; part002 orders by created_at and
\* splits tags.
readProjects ==
  IF pgClient
    THEN IF server = "nodesite"
           THEN SortedDesc(table, "updatedAt")
           ELSE LET rows == SortedDesc(table, "createdAt")
                IN [ k \in 1..Len(rows) |->
                       [ rows[k] EXCEPT !.tags = TagList(SplitTags(@.v)) ] ]
    ELSE ensureDataFile.list

Ids(list) == { list[k].id : k \in 1..Len(list) }

\* list.findIndex(p => p.id === id), 0 for -1
FindIndex(list, id) ==
  IF \E k \in 1..Len(list) : list[k].id = id
    THEN CHOOSE k \in 1..Len(list) :
           list[k].id = id /\ \A j \in 1..(k - 1) : list[j].id # id
    ELSE 0

\* list.filter(p => p.id !== id)
Without(list, id) == LET keep(p) == p.id # id IN SelectSeq(list, keep)

\* { ...existing, ...fields, id, updatedAt }
Spread(existing, fields, id) ==
  [ f \in DOMAIN existing \cup DOMAIN fields \cup {"id", "updatedAt"} |->
      IF f = "id" THEN id
      ELSE IF f = "updatedAt" THEN now
      ELSE IF f \in DOMAIN fields THEN fields[f]
      ELSE existing[f] ]

\* The tags parameter of the SQL update: a joined list, a string, or null
UpdateTags(fields) ==
  IF ~Has(fields, "tags") THEN None
  ELSE IF fields.tags.kind = "list" THEN TagString(Join(fields.tags.v))
  ELSE fields.tags

SqlColumns == {"name", "description", "repoUrl", "websiteUrl", "type",
               "status", "featured", "image"}

\* update projects set c = coalesce($n, c), ..., updated_at = $11 where id = $1
SqlUpdate(row, fields, ts) ==
  [ f \in DOMAIN row |->
      IF f = "updatedAt" THEN ts
      ELSE IF f = "tags"
        THEN (IF UpdateTags(fields) = None THEN row.tags ELSE UpdateTags(fields))
      ELSE IF f \in SqlColumns /\ Has(fields, f) THEN fields[f]
      ELSE row[f] ]

\* ------------------------------------------------------------ request body
\* What a request body can be: text that parses as the declared content type
\* (given here as the parsed object) or text that does not.
Malformed == [ malformed |-> TRUE ]

EmptyBody == [ x \in {} |-> "" ]

Parsed(data) == [ settled |-> "resolved", data |-> data ]

ParseFailed == [ settled |-> "rejected", data |-> EmptyBody ]

\* parseBody(req): nodesite resolves {} when JSON.parse throws; part002
\* rejects with the parse error.
parseBody(body) ==
  IF body = Malformed
    THEN (IF server = "nodesite" THEN Parsed(EmptyBody) ELSE ParseFailed)
    ELSE Parsed(body)

\* ------------------------------------------------------------ projects API
Methods == {"GET", "POST", "PUT", "PATCH", "DELETE"}

\* Where the dispatch of /api/projects[/id] sends a request: the status it
\* answers at once, or 0 and the step the handler waits at.
Answer(status) == [ status |-> status, pc |-> "done" ]

Await(pc) == [ status |-> 0, pc |-> pc ]

Route(method, id, authed) ==
  LET mutate == IF ~pgClient THEN "read" ELSE "query" IN
  IF server = "nodesite"
    THEN CASE method = "GET" /\ id = NoId ->  Await("list")
           [] method = "POST" /\ id = NoId ->
                IF ~authed THEN Answer(401) ELSE Await("body")
           [] method = "PUT" /\ id # NoId ->
                IF ~authed THEN Answer(401) ELSE Await("body")
           [] method = "DELETE" /\ id # NoId ->
                IF ~authed THEN Answer(401) ELSE Await(mutate)
           [] OTHER -> Answer(405)
    ELSE CASE method = "GET" -> Await("list")
           [] ~authed -> Answer(401)
           [] method = "POST" /\ id = NoId -> Await("body")
           [] method \in {"PUT", "PATCH"} /\ id # NoId -> Await("body")
           [] method = "DELETE" /\ id # NoId -> Await(mutate)
           [] OTHER -> Answer(405)

Done(r, status, result) == [ r EXCEPT !.pc = "done", !.status = status,
                                       !.result = result ]

\* pgClient is one connection: it runs the statements handed to it one at a
\* time, in the order of the pgClient.query calls.  A request's ticket is the
\* position of its statement in that order (0: none handed over yet).
NextTicket == 1 + Cardinality({ k \in 1..Len(reqs) : reqs[k].ticket > 0 })

Issue(r, pc) == [ r EXCEPT !.pc = pc,
                           !.ticket = IF pc = "query" THEN NextTicket ELSE 0 ]

FirstInLine(i) ==
  \A k \in 1..Len(reqs) : reqs[k].pc = "query" => reqs[k].ticket >= reqs[i].ticket

\* A request to /api/projects or /api/projects/<id> arrives: the session is
\* looked up and the request dispatched, up to the first await.
ProjArrive(method, id, ck, body) ==
  /\ Len(reqs) < MaxReqs
  /\ LET to == Route(method, id, isAuthed(ck))
     IN reqs' = Append(reqs,
          Issue([ method |-> method, id |-> id, ck |-> ck, body |-> body,
                  at |-> now, authed |-> isAuthed(ck), pc |-> to.pc,
                  status |-> to.status, data |-> EmptyBody, item |-> None,
                  base |-> <<>>, list |-> <<>>, ts |-> 0, ticket |-> 0,
                  result |-> None ],
                to.pc))
  /\ UNCHANGED << config, metricVars, now, authVars, file, table, nextUuid >>

\* parseBody(req) resolves: the handler runs up to its next await.
ParseBody(i) ==
  /\ i \in 1..Len(reqs)
  /\ reqs[i].pc = "body"
  /\ LET r == reqs[i]
         p == parseBody(r.body)
         next == IF pgClient THEN "query" ELSE "read"
     IN IF p.settled = "rejected"
          THEN /\ reqs' = [ reqs EXCEPT ![i] = Done(r, 400, None) ]
               /\ UNCHANGED nextUuid
          ELSE IF r.method = "POST"
            THEN /\ reqs' = [ reqs EXCEPT ![i] =
                      Issue([ r EXCEPT !.data = p.data,
                                       !.item = NewItem(p.data) ], next) ]
                 /\ nextUuid' = IF server = "nodesite"
                                   /\ ~(Has(p.data, "id") /\ p.data.id # NoId)
                                  THEN nextUuid + 1 ELSE nextUuid
            ELSE /\ reqs' = [ reqs EXCEPT ![i] =
                      Issue([ r EXCEPT !.data = p.data, !.ts = now ], next) ]
                 /\ UNCHANGED nextUuid
  /\ UNCHANGED << config, metricVars, now, authVars, file, table >>

\* GET: readProjects() resolves and the list (or one item) is sent.
ListStep(i) ==
  /\ i \in 1..Len(reqs)
  /\ reqs[i].pc = "list"
  /\ pgClient => boot.connected
  /\ LET r == reqs[i]
         list == readProjects
     IN /\ file' = IF pgClient THEN file ELSE ensureDataFile
        /\ reqs' = [ reqs EXCEPT ![i] =
             IF r.id = NoId THEN Done(r, 200, None)
             ELSE IF FindIndex(list, r.id) = 0 THEN Done(r, 404, None)
             ELSE Done(r, 200, list[FindIndex(list, r.id)]) ]
  /\ UNCHANGED << config, metricVars, now, authVars, table, nextUuid >>

\* File backend: readProjects() resolves; the handler changes its copy of
\* the list (base is the list as it was read) and starts writeProjects.
ReadFile(i) ==
  /\ i \in 1..Len(reqs)
  /\ reqs[i].pc = "read"
  /\ LET r == reqs[i]
         list == readProjects
         idx == FindIndex(list, r.id)
     IN /\ file' = ensureDataFile
        /\ reqs' = [ reqs EXCEPT ![i] =
             CASE r.method = "POST" ->
                    [ r EXCEPT !.pc = "write", !.base = list,
                               !.list = IF server = "nodesite"
                                          THEN << r.item >> \o list
                                          ELSE Append(list, r.item) ]
               [] r.method = "DELETE" ->
                    [ r EXCEPT !.pc = "write", !.base = list,
                               !.list = Without(list, r.id) ]
               [] OTHER ->
                    IF idx = 0 THEN Done(r, 404, None)
                    ELSE [ r EXCEPT !.pc = "write", !.base = list,
                             !.item = Spread(list[idx], r.data, r.id),
                             !.list = [ list EXCEPT ![idx] =
                                          Spread(list[idx], r.data, r.id) ] ] ]
  /\ UNCHANGED << config, metricVars, now, authVars, table, nextUuid >>

\* File backend: writeProjects(list) resolves and the response is sent.
WriteFile(i) ==
  /\ i \in 1..Len(reqs)
  /\ reqs[i].pc = "write"
  /\ LET r == reqs[i]
     IN /\ file' = FileOf(r.list)
        /\ reqs' = [ reqs EXCEPT ![i] =
             CASE r.method = "POST" -> Done(r, 201, r.item)
               [] r.method = "DELETE" -> Done(r, 204, None)
               [] OTHER -> Done(r, 200, r.item) ]
  /\ UNCHANGED << config, metricVars, now, authVars, table, nextUuid >>

RowsWith(id) == { row \in table : row.id = id }

\* Relational backend: the statement runs and the response is sent.
Query(i) ==
  /\ i \in 1..Len(reqs)
  /\ reqs[i].pc = "query"
  /\ boot.connected
  /\ FirstInLine(i)
  /\ LET r == reqs[i]
     IN CASE r.method = "POST" ->
               IF RowsWith(r.item.id) # {}
                 THEN /\ table' = table
                      /\ reqs' = [ reqs EXCEPT ![i] =
                           IF server = "nodesite" THEN Done(r, 400, None)
                           ELSE Done(r, 201, r.item) ]
                 ELSE /\ table' = table \cup { RowOf(r.item) }
                      /\ reqs' = [ reqs EXCEPT ![i] =
                           IF server = "nodesite" THEN Done(r, 201, RowOf(r.item))
                           ELSE Done(r, 201, r.item) ]
          [] r.method = "DELETE" ->
               /\ table' = table \ RowsWith(r.id)
               /\ reqs' = [ reqs EXCEPT ![i] = Done(r, 204, None) ]
          [] OTHER ->
               /\ table' = (table \ RowsWith(r.id))
                             \cup { SqlUpdate(row, r.data, r.ts) : row \in RowsWith(r.id) }
               /\ reqs' = [ reqs EXCEPT ![i] =
                    IF RowsWith(r.id) = {}
                      THEN (IF server = "nodesite" THEN Done(r, 200, None)
                            ELSE Done(r, 404, None))
                      ELSE LET row == SqlUpdate(CHOOSE x \in RowsWith(r.id) : TRUE,
                                                r.data, r.ts)
                           IN IF server = "nodesite" THEN Done(r, 200, row)
                              ELSE Done(r, 200,
                                     [ row EXCEPT !.tags = TagList(SplitTags(@.v)) ]) ]
  /\ UNCHANGED << config, metricVars, now, authVars, file, nextUuid >>

\* The error a failed write rejects with: fsp.writeFile (file backend) or
\* pgClient.query (relational backend)
Failure(message) == [ error |-> message ]

WriteErrors == { Failure("EIO"), Failure("db") }

\* .catch(err => json(res, code, { error: err.message })): the code of the
\* catch that ends the handler's promise chain, 400 after parseBody(req).then
\* and 500 in the delete handlers
CatchStatus(method) == IF method = "DELETE" THEN 500 ELSE 400

\* File backend: writeProjects(list) rejects; the file is left as it was and
\* the handler's catch answers.
WriteFails(i) ==
  /\ i \in 1..Len(reqs)
  /\ reqs[i].pc = "write"
  /\ reqs' = [ reqs EXCEPT ![i] =
       Done(reqs[i], CatchStatus(reqs[i].method), Failure("EIO")) ]
  /\ UNCHANGED << config, metricVars, now, authVars, file, table, nextUuid >>

\* Relational backend: the statement rejects; the table is left as it was
\* and the handler's catch answers.
QueryFails(i) ==
  /\ i \in 1..Len(reqs)
  /\ reqs[i].pc = "query"
  /\ FirstInLine(i)
  /\ reqs' = [ reqs EXCEPT ![i] =
       Done(reqs[i], CatchStatus(reqs[i].method), Failure("db")) ]
  /\ UNCHANGED << config, metricVars, now, authVars, file, table, nextUuid >>

\* GET: readProjects() rejects and the handler's catch answers 500.
ListFails(i) ==
  /\ i \in 1..Len(reqs)
  /\ reqs[i].pc = "list"
  /\ reqs' = [ reqs EXCEPT ![i] =
       Done(reqs[i], 500, Failure(IF pgClient THEN "db" ELSE "EIO")) ]
  /\ UNCHANGED << config, metricVars, now, authVars, file, table, nextUuid >>

\* ---------------------------------------------------------------- dispatch
ApiPaths == { Path("/api/me", NoId), Path("/api/metrics/view", NoId),
              Path("/api/metrics/summary", NoId), Path("/api/projects", NoId),
              Path("/api/projects", IdA) }

\* The branch of the request handler's if-chain that takes a request, and
\* the status it answers at once (0 when the branch awaits).  A request no
\* branch takes reaches static handling, which finds no such file and sends
\* the top-level document.
Handler(method, path, authed) ==
  LET static == [ handler |-> "static", status |-> 200 ]
      taken(name, status) == [ handler |-> name, status |-> status ]
  IN IF path.base = "/api/projects"
       THEN taken("projects", Route(method, path.id, authed).status)
     ELSE IF server = "nodesite"
       THEN (IF path.base = "/api/me" THEN taken("me", 200) ELSE static)
     ELSE CASE path.base = "/api/me" /\ method = "GET" -> taken("me", 200)
            [] path.base = "/api/metrics/view" /\ method = "POST" -> taken("view", 0)
            [] path.base = "/api/metrics/summary" /\ method = "GET" ->
                 taken("summary", 0)
            [] OTHER -> static

\* A request that the if-chain answers without awaiting anything.
Dispatch(method, path, ck) ==
  /\ Handler(method, path, isAuthed(ck)).status # 0
  /\ resp' = [ Resp(Handler(method, path, isAuthed(ck)).handler,
                    Handler(method, path, isAuthed(ck)).status,
                    <<>>, NoState, isAuthed(ck), ck)
                 EXCEPT !.method = method, !.path = path ]
  /\ UNCHANGED << config, metricVars, now, sessions, oauthStates, nextState,
                  nextSid, calls, projVars >>

\* ------------------------------------------------------------ static files
\* A path is a sequence of segments and a segment a sequence of characters;
\* the string of a path puts a "/" before every segment.
DotDot == << ".", "." >>

Index == << "i" >>           \* index.html

PUBLIC_DIR == << <<"a">>, <<"p">> >>      \* the directory /a/p

\* The files and directories of the machine: the document and one asset in
\* the public directory, a file in the sibling directory /a/pq and one in /a.
Files == { PUBLIC_DIR \o << Index >>, PUBLIC_DIR \o << <<"f">> >>,
           << <<"a">>, <<"p", "q">>, <<"f">> >>, << <<"a">>, <<"f">> >> }

Dirs == { << >>, << <<"a">> >>, PUBLIC_DIR, << <<"a">>, <<"p", "q">> >> }

RECURSIVE Normalize(_, _)
\* path.normalize of an absolute path: ".." drops the segment before it and
\* is dropped itself at the root
Normalize(done, rest) ==
  IF rest = << >> THEN done
  ELSE IF Head(rest) = DotDot
    THEN Normalize(IF done = << >> THEN << >> ELSE SubSeq(done, 1, Len(done) - 1),
                   Tail(rest))
    ELSE Normalize(Append(done, Head(rest)), Tail(rest))

\* path.join(base, target)
Joined(base, target) == Normalize(<< >>, base \o target)

RECURSIVE PathString(_)
PathString(path) ==
  IF path = << >> THEN << >>
  ELSE << "/" >> \o Head(path) \o PathString(Tail(path))

\* String.prototype.startsWith
startsWith(str, prefix) ==
  Len(prefix) <= Len(str) /\ SubSeq(str, 1, Len(prefix)) = prefix

\* The number of leading segments two paths share
Common(a, b) ==
  CHOOSE n \in 0..Len(a) :
    /\ n <= Len(b)
    /\ \A k \in 1..n : a[k] = b[k]
    /\ n < Len(a) /\ n < Len(b) => a[n + 1] # b[n + 1]

\* path.relative(from, to): one ".." for every segment of `from` that `to`
\* does not share, then the segments of `to` that follow the shared ones
relative(from, to) ==
  [ k \in 1..(Len(from) - Common(from, to)) |-> DotDot ]
    \o SubSeq(to, Common(from, to) + 1, Len(to))

NoFilePath == << << >> >>      \* null

\* safeJoin(base, target): nodesite checks the relative path of the result;
\* part002 (and the static-only server of server.js:655-659) checks that
\* the result's string starts with the string of the base.
safeJoin(base, target) ==
  LET result == Joined(base, target)
      rel == relative(base, result)
  IN IF server = "nodesite"
       THEN (IF rel # << >> /\ ~startsWith(rel[1], DotDot) THEN result
             ELSE NoFilePath)
       ELSE (IF startsWith(PathString(result), PathString(base)) THEN result
             ELSE NoFilePath)

\* Static file handling: what a request that no route takes is answered
\* with.  `served` is the file whose content is sent.
StaticAnswer(target) ==
  LET filePath == IF target = << >> THEN PUBLIC_DIR \o << Index >>
                  ELSE safeJoin(PUBLIC_DIR, target)
      fallback == PUBLIC_DIR \o << Index >>
      inDir == filePath \o << Index >>
      answer(status, served) == [ status |-> status, served |-> served ]
  IN IF filePath = NoFilePath THEN answer(400, << >>)
     ELSE IF filePath \notin Files \cup Dirs
       THEN (IF fallback \in Files THEN answer(200, fallback)
             ELSE answer(404, << >>))
     ELSE IF filePath \in Dirs
       THEN (IF inDir \in Files THEN answer(200, inDir) ELSE answer(404, << >>))
     ELSE answer(200, filePath)

\* A request whose path matches no route reaches static file handling.
Static(target, ck) ==
  /\ resp' = [ Resp("static", StaticAnswer(target).status, <<>>, NoState,
                    isAuthed(ck), ck)
                 EXCEPT !.method = "GET", !.target = target,
                        !.served = StaticAnswer(target).served ]
  /\ UNCHANGED << config, metricVars, now, sessions, oauthStates, nextState,
                  nextSid, calls, projVars >>

\* ------------------------------------------------------- request prologue
\* The outcome of a call that may throw
Returned(value) == [ threw |-> FALSE, value |-> value ]

Thrown == [ threw |-> TRUE, value |-> << >> ]

HexDigits == { "4", "1" }

RECURSIVE decodeURIComponent(_)
\* decodeURIComponent(str): "%" followed by two hex digits is one character
\* ("%41" is "A"); any other "%" throws URIError
decodeURIComponent(str) ==
  IF str = << >> THEN Returned(<< >>)
  ELSE IF Head(str) # "%"
    THEN LET rest == decodeURIComponent(Tail(str))
         IN IF rest.threw THEN Thrown
            ELSE Returned(<< Head(str) >> \o rest.value)
  ELSE IF Len(str) >= 3 /\ str[2] \in HexDigits /\ str[3] \in HexDigits
    THEN LET rest == decodeURIComponent(SubSeq(str, 4, Len(str)))
         IN IF rest.threw THEN Thrown
            ELSE Returned(<< "A" >> \o rest.value)
  ELSE Thrown

RECURSIVE DecodePath(_)
\* decodeURIComponent applied to the path of the URL, segment by segment
DecodePath(url) ==
  IF url = << >> THEN Returned(<< >>)
  ELSE LET seg == decodeURIComponent(Head(url))
           rest == DecodePath(Tail(url))
       IN IF seg.threw \/ rest.threw THEN Thrown
          ELSE Returned(<< seg.value >> \o rest.value)

\* One name=value pair of the Cookie header
Pair(name, value) == [ name |-> name, value |-> value ]

\* The value parseCookies stores for one pair.  nodesite declares `const
\* value` and assigns to it when the value starts with a double quote, which
\* throws TypeError; part002 decodes the value as it is.
CookieValue(value) ==
  IF server = "nodesite" /\ value # << >> /\ Head(value) = "\""
    THEN Thrown
    ELSE decodeURIComponent(value)

RECURSIVE parseCookies(_)
\* parseCookies(req): the cookies as a function from names to values, a
\* later pair replacing an earlier one of the same name
parseCookies(header) ==
  IF header = << >> THEN Returned(<< >>)
  ELSE LET first == parseCookies(SubSeq(header, 1, Len(header) - 1))
           last == header[Len(header)]
           v == CookieValue(last.value)
       IN IF first.threw \/ v.threw THEN Thrown
          ELSE Returned([ n \in DOMAIN first.value \cup { last.name } |->
                            IF n = last.name THEN v.value ELSE first.value[n] ])

\* cookies.sid and cookies.session === "1" of the parsed cookies
CookiesOf(cookies) ==
  [ sid |-> IF "sid" \notin DOMAIN cookies \/ cookies["sid"] = << >> THEN NoSid
            ELSE IF cookies["sid"] = << "1" >> THEN 1
            ELSE MaxCalls + 1,
    session1 |-> "session" \in DOMAIN cookies /\ cookies["session"] = << "1" >> ]

\* The prologue threw inside the request listener: nothing catches the
\* exception and no response is written.
Uncaught == Resp("uncaught", 0, <<>>, NoState, FALSE, NoCookies)

\* A request arrives: the handler decodes the path and parses the cookies
\* before it looks at any route; here a request no route takes.
Request(url, header) ==
  IF DecodePath(url).threw \/ parseCookies(header).threw
    THEN /\ resp' = [ Uncaught EXCEPT !.method = "GET" ]
         /\ UNCHANGED << config, metricVars, now, sessions, oauthStates,
                         nextState, nextSid, calls, projVars >>
    ELSE Static(DecodePath(url).value, CookiesOf(parseCookies(header).value))

\* ---------------------------------------------------------------- metrics
\* Only part002 has the /api/metrics routes.  Days are numbered from the
\* epoch; a date label is its day number.
MsPerDay == 86400000

VidMaxAge == 31536000   \* 60*60*24*365

DefaultDays == 60

MaxWindow == 365

TopN == 6

NoVid == 0          \* the request carries no (or an empty) vid cookie

\* The visitor ids a browser can present
CarriedVids == {1, 2}

Pages == {"home", "about"}

\* The day of Date.UTC(getUTCFullYear(), getUTCMonth(), getUTCDate())
UTCDay(t) == t \div MsPerDay

\* crypto.randomBytes(12).toString('hex'): a value no browser presents
FreshVid == Cardinality(CarriedVids) + nextVid

Row(day, page) == [ day |-> day, page |-> page, views |-> 0, uniques |-> 0 ]

At(r, day, page) == r.day = day /\ r.page = page

\* insert into metrics_daily ... values ($1,$2,0,0) on conflict do nothing
InsertDaily(day, page) ==
  IF \E r \in metrics_daily : At(r, day, page)
    THEN metrics_daily
    ELSE metrics_daily \cup { Row(day, page) }

\* (mutant) the views counter is left as it was
IncViews_skipped(r) == r

\* set views = views + 1
IncViews(r) == [ r EXCEPT !.views = @ + 1 ]

IncUniques(r) == [ r EXCEPT !.uniques = @ + 1 ]

\* update metrics_daily set views = views + 1 where day=$1 and page=$2
UpdateViews(day, page) ==
  { IF At(r, day, page) THEN IncViews(r) ELSE r : r \in metrics_daily }

\* update metrics_daily set uniques = uniques + 1 where day=$1 and page=$2
UpdateUniques(day, page) ==
  { IF At(r, day, page) THEN IncUniques(r) ELSE r : r \in metrics_daily }

\* (mutant) the insert reports a row whether or not the triple was there
RowCount_always(triple) == 1

\* u.rowCount of insert into metrics_uniques ... on conflict do nothing
RowCount(triple) == IF triple \in metrics_uniques THEN 0 ELSE 1

Beacon(body, vidCookie) ==
  [ body |-> body, vidCookie |-> vidCookie, pc |-> "body", page |-> "",
    vid |-> NoVid, day |-> 0, status |-> 0, cookies |-> <<>> ]

\* (mutant) a visitor id is minted for every beacon
Mint_always(vidCookie) == TRUE

\* !vidCookie: the request carries no vid cookie, or an empty one
Mint(vidCookie) == vidCookie = NoVid

BeaconDone(b, status) == [ b EXCEPT !.pc = "done", !.status = status ]

\* POST /api/metrics/view arrives and waits for its body.
BeaconArrive(body, vidCookie) ==
  /\ server = "part002"
  /\ Len(beacons) < MaxBeacons
  /\ beacons' = Append(beacons, Beacon(body, vidCookie))
  /\ UNCHANGED << config, now, authVars, projVars, metrics_daily,
                  metrics_uniques, nextVid, summary >>

\* parseBody resolves: page, visitor id and day are fixed; without a
\* database the beacon is answered at once.
BeaconBody(i) ==
  /\ i \in 1..Len(beacons)
  /\ beacons[i].pc = "body"
  /\ LET b == beacons[i]
         p == parseBody(b.body)
         mint == Mint(b.vidCookie)
         c == [ b EXCEPT
                  !.page = IF "page" \in DOMAIN p.data THEN p.data.page ELSE "home",
                  !.vid = IF mint THEN FreshVid ELSE b.vidCookie,
                  !.day = UTCDay(now),
                  !.cookies = IF mint THEN << cookie("vid", FreshVid, VidMaxAge) >>
                              ELSE <<>> ]
     IN IF p.settled = "rejected"
          THEN /\ beacons' = [ beacons EXCEPT ![i] = BeaconDone(b, 500) ]
               /\ UNCHANGED nextVid
          ELSE /\ beacons' = [ beacons EXCEPT ![i] =
                    IF pgClient THEN [ c EXCEPT !.pc = "insert" ]
                    ELSE BeaconDone(c, 204) ]
               /\ nextVid' = IF mint THEN nextVid + 1 ELSE nextVid
  /\ UNCHANGED << config, now, authVars, projVars, metrics_daily,
                  metrics_uniques, summary >>

\* The first statement: the (day, page) row is created when missing.
BeaconInsert(i) ==
  /\ i \in 1..Len(beacons)
  /\ beacons[i].pc = "insert"
  /\ metrics_daily' = InsertDaily(beacons[i].day, beacons[i].page)
  /\ beacons' = [ beacons EXCEPT ![i].pc = "views" ]
  /\ UNCHANGED << config, now, authVars, projVars, metrics_uniques, nextVid,
                  summary >>

\* The second statement: views = views + 1.
BeaconViews(i) ==
  /\ i \in 1..Len(beacons)
  /\ beacons[i].pc = "views"
  /\ metrics_daily' = UpdateViews(beacons[i].day, beacons[i].page)
  /\ beacons' = [ beacons EXCEPT ![i].pc = "unique" ]
  /\ UNCHANGED << config, now, authVars, projVars, metrics_uniques, nextVid,
                  summary >>

\* The third statement: the (day, page, vid) triple is recorded when new;
\* when it was there already the beacon is answered.
BeaconUnique(i) ==
  /\ i \in 1..Len(beacons)
  /\ beacons[i].pc = "unique"
  /\ LET b == beacons[i]
         triple == << b.day, b.page, b.vid >>
     IN /\ metrics_uniques' = metrics_uniques \cup { triple }
        /\ beacons' = [ beacons EXCEPT ![i] =
             IF RowCount(triple) > 0 THEN [ b EXCEPT !.pc = "bump" ]
             ELSE BeaconDone(b, 204) ]
  /\ UNCHANGED << config, now, authVars, projVars, metrics_daily, nextVid,
                  summary >>

\* The fourth statement: uniques = uniques + 1, and the beacon is answered.
BeaconBump(i) ==
  /\ i \in 1..Len(beacons)
  /\ beacons[i].pc = "bump"
  /\ metrics_daily' = UpdateUniques(beacons[i].day, beacons[i].page)
  /\ beacons' = [ beacons EXCEPT ![i] = BeaconDone(beacons[i], 204) ]
  /\ UNCHANGED << config, now, authVars, projVars, metrics_uniques, nextVid,
                  summary >>

\* The clock reaches the next UTC midnight.
NextDay ==
  /\ UTCDay(now) < MaxDays
  /\ now' = (UTCDay(now) + 1) * MsPerDay
  /\ UNCHANGED << config, authVars, projVars, metricVars >>

\* The `days` query parameter: absent (or empty), not a number, or a number
Absent == [ kind |-> "absent", n |-> 0 ]

NotANumber == [ kind |-> "nan", n |-> 0 ]

Num(n) == [ kind |-> "num", n |-> n ]

Min(a, b) == IF a < b THEN a ELSE b

Max(a, b) == IF a > b THEN a ELSE b

\* Math.max(1, Math.min(365, Number(q.get('days')||60))), for a number
Clamp(param) ==
  Max(1, Min(MaxWindow, IF param.kind = "absent" THEN DefaultDays ELSE param.n))

\* (mutant) the window starts one day late
Labels_short(param, today) ==
  IF param.kind = "nan" THEN <<>>
  ELSE [ k \in 1..(Clamp(param) - 1) |-> today - Clamp(param) + 1 + k ]

\* labels: the days from start to end; none when days is NaN, since the
\* start date is then invalid and the loop condition false
Labels(param, today) ==
  IF param.kind = "nan" THEN <<>>
  ELSE [ k \in 1..Clamp(param) |-> today - Clamp(param) + k ]

Zeros(n) == [ k \in 1..n |-> 0 ]

RECURSIVE ColumnSum(_, _)
\* The sum of one column over a set of rows
ColumnSum(rows, col) ==
  IF rows = {} THEN 0
  ELSE LET r == CHOOSE r \in rows : TRUE
       IN r[col] + ColumnSum(rows \ {r}, col)

\* select day, page, views, uniques from metrics_daily where day between $1
\* and $2 (no row when the parameters are null)
RowsBetween(labels) ==
  IF labels = <<>> THEN {}
  ELSE { r \in metrics_daily : r.day >= labels[1] /\ r.day <= labels[Len(labels)] }

\* views[i] += r.views, uniques[i] += r.uniques, for the rows of each label
Totals(rows, labels, col) ==
  [ k \in 1..Len(labels) |-> ColumnSum({ r \in rows : r.day = labels[k] }, col) ]

\* let pages = {}: a plain object inherits the members of Object.prototype
\* (constructor and the like, all truthy), and its __proto__ is an accessor
\* whose setter ignores a value that is not an object
Inherited == {"constructor"}

ProtoKey == "__proto__"

NativeCode == "function Object() { [native code] }"

\* A number
Total(n) == [ text |-> "", n |-> n ]

\* The string an inherited function and the views added to it concatenate to
\* (abstracted: the text of the function, and the views that follow it)
Concat(text, n) == [ text |-> text, n |-> n ]

\* pages[r.page] = (pages[r.page]||0) + Number(r.views||0), then
\* Object.entries(pages): the own properties. A page named as an inherited
\* member starts from the inherited function, so its value is a string; the
\* page __proto__ is never stored.
PageTotals(rows) ==
  { << pg, Total(ColumnSum({ r \in rows : r.page = pg }, "views")) >> :
      pg \in { r.page : r \in rows } \ (Inherited \cup {ProtoKey}) }
    \cup { << pg, Concat(NativeCode, ColumnSum({ r \in rows : r.page = pg }, "views")) >> :
             pg \in { r.page : r \in rows } \cap Inherited }

\* (a, b) => b[1] - a[1]: NaN when a value is not numeric, which sort takes
\* as +0
Compare(a, b) ==
  IF a[2].text = "" /\ b[2].text = "" THEN b[2].n - a[2].n ELSE 0

RECURSIVE Orders(_)
\* The orders the entries can be in
Orders(E) ==
  IF E = {} THEN { <<>> }
  ELSE UNION { { << e >> \o q : q \in Orders(E \ {e}) } : e \in E }

\* Array.prototype.sort: with a consistent comparator the entries end in
\* comparator order, entries that compare equal keeping the order of the
\* rows, which the query leaves to the database; with a comparator that
\* answers NaN for some pair the order is implementation-defined.
Sorts(E) ==
  IF \E e \in E : e[2].text # ""
    THEN Orders(E)
    ELSE { q \in Orders(E) :
             \A j, k \in 1..Len(q) : j < k => Compare(q[j], q[k]) <= 0 }

\* Object.entries(pages).sort((a,b)=>b[1]-a[1]).slice(0,6)
TopPages(rows) ==
  { SubSeq(q, 1, Min(TopN, Len(q))) : q \in Sorts(PageTotals(rows)) }

NoSummary ==
  [ pc |-> "idle", param |-> Absent, at |-> 0, labels |-> <<>>, status |-> 0,
    views |-> <<>>, uniques |-> <<>>, pages |-> <<>>, failed |-> FALSE ]

\* return json(res, 200, { labels, views, uniques, pages: topPages })
SummaryOk(q, views, uniques, pages) ==
  [ q EXCEPT !.pc = "done", !.status = 200, !.views = views,
             !.uniques = uniques, !.pages = pages ]

\* (mutant) the failure is reported as an error
SummaryFailed_500(q) ==
  [ q EXCEPT !.pc = "done", !.status = 500, !.labels = <<>>, !.failed = TRUE ]

\* catch: return json(res, 200, { labels: [], views: [], uniques: [], pages: [] })
SummaryFailed(q) ==
  [ q EXCEPT !.pc = "done", !.status = 200, !.labels = <<>>, !.views = <<>>,
             !.uniques = <<>>, !.pages = <<>>, !.failed = TRUE ]

\* GET /api/metrics/summary arrives: the window is computed; without a
\* database the zero-filled arrays are sent at once.
SummaryArrive(param) ==
  /\ server = "part002"
  /\ summary.pc # "query"
  /\ LET labels == Labels(param, UTCDay(now))
         q == [ NoSummary EXCEPT !.param = param, !.at = UTCDay(now),
                                 !.labels = labels ]
     IN summary' = IF pgClient THEN [ q EXCEPT !.pc = "query" ]
                   ELSE SummaryOk(q, Zeros(Len(labels)), Zeros(Len(labels)), <<>>)
  /\ UNCHANGED << config, now, authVars, projVars, metrics_daily,
                  metrics_uniques, beacons, nextVid >>

\* The select resolves (ok) or rejects, and the response is sent.
SummaryQuery(ok) ==
  /\ summary.pc = "query"
  /\ IF ~ok
       THEN summary' = SummaryFailed(summary)
       ELSE LET rows == RowsBetween(summary.labels)
            IN \E pages \in TopPages(rows) :
                 summary' = SummaryOk(summary,
                                      Totals(rows, summary.labels, "views"),
                                      Totals(rows, summary.labels, "uniques"),
                                      pages)
  /\ UNCHANGED << config, now, authVars, projVars, metrics_daily,
                  metrics_uniques, beacons, nextVid >>

\* ------------------------------------------------------------ setup script
\* setup.js: main() asks its questions one after the other; pc names the
\* question that waits for an answer. found, asked and overwrite record what
\* checkExistingEnv saw and was answered; env is the .env file.
NoConfig == [ none |-> TRUE ]

NoEnv == [ exists |-> FALSE, content |-> NoConfig ]

EnvOf(content) == [ exists |-> TRUE, content |-> content ]

Wizard(pc, env) ==
  [ pc |-> pc, env |-> env, config |-> NoConfig, found |-> FALSE,
    asked |-> FALSE, overwrite |-> << >> ]

NoWizard == Wizard("idle", NoEnv)

BaseUrl == << "http://localhost:3000" >>

CallbackOf(baseUrl) == baseUrl \o << "/auth/github/callback" >>

DatabaseUrl(dbName) ==
  << "postgres://", "my_nodesite", ":", "secret32", "@", "db", ":", "5432", "/" >>
    \o dbName

\* setupBasicConfig(): generateSecureSecret gives the two secrets
setupBasicConfig ==
  [ SESSION_SECRET |-> << "secret64" >>, PORT |-> << "3000" >>,
    BASE_URL |-> BaseUrl, POSTGRES_DB |-> << "my_nodesite" >>,
    DATABASE_URL |-> DatabaseUrl(<< "my_nodesite" >>),
    GITHUB_CLIENT_ID |-> << >>, GITHUB_CLIENT_SECRET |-> << >>,
    ADMIN_GITHUB_USER |-> << >>, GITHUB_CALLBACK_URL |-> << >>,
    OAUTH_REDIRECT_URI |-> << >> ]

\* (mutant) every answer counts as consent
Yes_any(answer) == TRUE

\* answer.toLowerCase() === 'y' || answer.toLowerCase() === 'yes'
Yes(answer) ==
  toLowerCase(answer) = << "y" >> \/ toLowerCase(answer) = << "y", "e", "s" >>

\* main() up to the first question: checkExistingEnv asks when the file
\* exists; otherwise the basic configuration is built and setupGitHubOAuth
\* asks.
SetupStart ==
  /\ wizard.pc = "start"
  /\ wizard' = IF wizard.env.exists
                 THEN [ wizard EXCEPT !.pc = "overwrite", !.found = TRUE ]
                 ELSE [ wizard EXCEPT !.pc = "oauth", !.config = setupBasicConfig ]
  /\ UNCHANGED << server, GITHUB_CLIENT_ID, GITHUB_CLIENT_SECRET,
                  ADMIN_GITHUB_USER, SESSION_TTL_SECONDS, pgClient, boot,
                  client, metricVars, now, authVars, projVars >>

\* 'Do you want to overwrite it? (y/N)' is answered: process.exit(0) unless
\* the answer is yes.
AnswerOverwrite(answer) ==
  /\ wizard.pc = "overwrite"
  /\ wizard' = IF Yes(answer)
                 THEN [ wizard EXCEPT !.pc = "oauth", !.asked = TRUE,
                                      !.overwrite = answer,
                                      !.config = setupBasicConfig ]
                 ELSE [ wizard EXCEPT !.pc = "cancelled", !.asked = TRUE,
                                      !.overwrite = answer ]
  /\ UNCHANGED << server, GITHUB_CLIENT_ID, GITHUB_CLIENT_SECRET,
                  ADMIN_GITHUB_USER, SESSION_TTL_SECONDS, pgClient, boot,
                  client, metricVars, now, authVars, projVars >>

\* 'Do you want to configure GitHub OAuth now? (y/N)'
AnswerOAuth(answer) ==
  /\ wizard.pc = "oauth"
  /\ wizard' = [ wizard EXCEPT !.pc = IF Yes(answer) THEN "clientId"
                                      ELSE "customize" ]
  /\ UNCHANGED << server, GITHUB_CLIENT_ID, GITHUB_CLIENT_SECRET,
                  ADMIN_GITHUB_USER, SESSION_TTL_SECONDS, pgClient, boot,
                  client, metricVars, now, authVars, projVars >>

\* 'GitHub Client ID (leave empty to skip)'
AnswerClientId(answer) ==
  /\ wizard.pc = "clientId"
  /\ wizard' = IF answer = << >>
                 THEN [ wizard EXCEPT !.pc = "customize" ]
                 ELSE [ wizard EXCEPT !.pc = "clientSecret",
                                      !.config.GITHUB_CLIENT_ID = answer ]
  /\ UNCHANGED << server, GITHUB_CLIENT_ID, GITHUB_CLIENT_SECRET,
                  ADMIN_GITHUB_USER, SESSION_TTL_SECONDS, pgClient, boot,
                  client, metricVars, now, authVars, projVars >>

\* 'GitHub Client Secret'
AnswerClientSecret(answer) ==
  /\ wizard.pc = "clientSecret"
  /\ wizard' = [ wizard EXCEPT !.pc = "adminUser",
                               !.config.GITHUB_CLIENT_SECRET = answer ]
  /\ UNCHANGED << server, GITHUB_CLIENT_ID, GITHUB_CLIENT_SECRET,
                  ADMIN_GITHUB_USER, SESSION_TTL_SECONDS, pgClient, boot,
                  client, metricVars, now, authVars, projVars >>

\* 'Admin GitHub username (optional)', then the callback URLs are set
AnswerAdminUser(answer) ==
  /\ wizard.pc = "adminUser"
  /\ wizard' = [ wizard EXCEPT
                   !.pc = "customize",
                   !.config.ADMIN_GITHUB_USER = toLowerCase(answer),
                   !.config.GITHUB_CALLBACK_URL = CallbackOf(wizard.config.BASE_URL),
                   !.config.OAUTH_REDIRECT_URI = CallbackOf(wizard.config.BASE_URL) ]
  /\ UNCHANGED << server, GITHUB_CLIENT_ID, GITHUB_CLIENT_SECRET,
                  ADMIN_GITHUB_USER, SESSION_TTL_SECONDS, pgClient, boot,
                  client, metricVars, now, authVars, projVars >>

\* writeEnvFile(config): fs.writeFileSync writes the file (ok) or throws,
\* and main's catch ends the run with process.exit(1).
writeEnvFile(w, ok) ==
  IF ok THEN [ w EXCEPT !.pc = "done", !.env = EnvOf(w.config) ]
  ELSE [ w EXCEPT !.pc = "failed" ]

\* 'Do you want to customize the setup? (y/N)': without customization the
\* file is written at once.
AnswerCustomize(answer, ok) ==
  /\ wizard.pc = "customize"
  /\ wizard' = IF Yes(answer) THEN [ wizard EXCEPT !.pc = "port" ]
               ELSE writeEnvFile(wizard, ok)
  /\ UNCHANGED << server, GITHUB_CLIENT_ID, GITHUB_CLIENT_SECRET,
                  ADMIN_GITHUB_USER, SESSION_TTL_SECONDS, pgClient, boot,
                  client, metricVars, now, authVars, projVars >>

\* 'Server port'
AnswerPort(answer) ==
  /\ wizard.pc = "port"
  /\ wizard' = [ wizard EXCEPT !.pc = "baseUrl",
                               !.config.PORT = IF answer = << >> THEN @ ELSE answer ]
  /\ UNCHANGED << server, GITHUB_CLIENT_ID, GITHUB_CLIENT_SECRET,
                  ADMIN_GITHUB_USER, SESSION_TTL_SECONDS, pgClient, boot,
                  client, metricVars, now, authVars, projVars >>

\* 'Base URL': the callback URLs follow it when they were set
AnswerBaseUrl(answer) ==
  /\ wizard.pc = "baseUrl"
  /\ wizard' =
       IF answer = << >> THEN [ wizard EXCEPT !.pc = "dbName" ]
       ELSE [ wizard EXCEPT
                !.pc = "dbName",
                !.config.BASE_URL = answer,
                !.config.GITHUB_CALLBACK_URL =
                   IF @ = << >> THEN @ ELSE CallbackOf(answer),
                !.config.OAUTH_REDIRECT_URI =
                   IF wizard.config.GITHUB_CALLBACK_URL = << >> THEN @
                   ELSE CallbackOf(answer) ]
  /\ UNCHANGED << server, GITHUB_CLIENT_ID, GITHUB_CLIENT_SECRET,
                  ADMIN_GITHUB_USER, SESSION_TTL_SECONDS, pgClient, boot,
                  client, metricVars, now, authVars, projVars >>

\* 'Database name', the last question: the file is written.
AnswerDbName(answer, ok) ==
  /\ wizard.pc = "dbName"
  /\ LET w == IF answer = << >> THEN wizard
              ELSE [ wizard EXCEPT !.config.POSTGRES_DB = answer,
                                   !.config.DATABASE_URL = DatabaseUrl(answer) ]
     IN wizard' = writeEnvFile(w, ok)
  /\ UNCHANGED << server, GITHUB_CLIENT_ID, GITHUB_CLIENT_SECRET,
                  ADMIN_GITHUB_USER, SESSION_TTL_SECONDS, pgClient, boot,
                  client, metricVars, now, authVars, projVars >>

\* The input ends while a question waits: the promise never resolves and
\* the process ends.
SetupClosed ==
  /\ wizard.pc \in { "overwrite", "oauth", "clientId", "clientSecret",
                     "adminUser", "customize", "port", "baseUrl", "dbName" }
  /\ wizard' = [ wizard EXCEPT !.pc = "closed" ]
  /\ UNCHANGED << server, GITHUB_CLIENT_ID, GITHUB_CLIENT_SECRET,
                  ADMIN_GITHUB_USER, SESSION_TTL_SECONDS, pgClient, boot,
                  client, metricVars, now, authVars, projVars >>

\* ----------------------------------------------------------- client router
\* public/script.js and its template (part_001) in the browser. A string is
\* a sequence of tokens: "#", "/" and names. pages holds the data-page
\* attribute of each section of the document, hidden the hidden property of
\* each, links the href of each [data-route] link, active the links marked
\* active, sent the bodies of the view beacons posted.
Scripts == {"script.js", "part_001"}

DefaultPage(script) == IF script = "script.js" THEN << "home" >> ELSE << "trading" >>

HashSlash == << "#", "/" >>

\* str.replace('#/', ''): the first occurrence is removed
Replace(str) ==
  LET At2(i) == i < Len(str) /\ SubSeq(str, i, i + 1) = HashSlash
  IN IF \E i \in 1..Len(str) : At2(i)
       THEN LET i == CHOOSE i \in 1..Len(str) :
                       At2(i) /\ \A j \in 1..(i - 1) : ~At2(j)
            IN SubSeq(str, 1, i - 1) \o SubSeq(str, i + 2, Len(str))
       ELSE str

\* pages.forEach(sec => { sec.hidden = sec.getAttribute('data-page') !== page })
Hidden(pages, page) == [ k \in 1..Len(pages) |-> pages[k] # page ]

\* (hash || '#/home').replace('#/', '') || 'home'
PageOf(script, hash) ==
  LET name == Replace(IF hash = << >> THEN HashSlash \o DefaultPage(script)
                      ELSE hash)
  IN IF name = << >> THEN DefaultPage(script) ELSE name

Client(script, pages, hidden) ==
  [ script |-> script, pc |-> "load", hash |-> << >>, pages |-> pages,
    hidden |-> hidden, links |-> [ k \in 1..Len(pages) |-> HashSlash \o pages[k] ],
    active |-> {}, sent |-> << >> ]

NoClient == [ Client("script.js", << >>, << >>) EXCEPT !.pc = "idle" ]

\* setRoute(hash): sections, link classes and, in script.js, the view beacon
setRoute(c, hash) ==
  LET page == PageOf(c.script, hash)
  IN [ c EXCEPT !.pc = "ready",
                !.hash = hash,
                !.hidden = Hidden(c.pages, page),
                !.active = { k \in 1..Len(c.links) : Replace(c.links[k]) = page },
                !.sent = IF c.script = "script.js" THEN Append(@, page) ELSE @ ]

\* The script runs: setRoute(location.hash) for the hash the page was opened
\* with.
Load(hash) ==
  /\ client.pc = "load"
  /\ client' = setRoute(client, hash)
  /\ UNCHANGED << server, GITHUB_CLIENT_ID, GITHUB_CLIENT_SECRET,
                  ADMIN_GITHUB_USER, SESSION_TTL_SECONDS, pgClient, boot,
                  wizard, metricVars, now, authVars, projVars >>

\* hashchange: the hash becomes another one and setRoute(location.hash) runs.
HashChange(hash) ==
  /\ client.pc = "ready"
  /\ hash # client.hash
  /\ Len(client.sent) < MaxBeacons
  /\ client' = setRoute(client, hash)
  /\ UNCHANGED << server, GITHUB_CLIENT_ID, GITHUB_CLIENT_SECRET,
                  ADMIN_GITHUB_USER, SESSION_TTL_SECONDS, pgClient, boot,
                  wizard, metricVars, now, authVars, projVars >>

\* ---------------------------------------------------------- specifications
NoResp == [ Resp("none", 0, <<>>, NoState, FALSE, NoCookies) EXCEPT !.at = 0 ]

Init ==
  /\ server \in Servers
  /\ GITHUB_CLIENT_ID = TRUE
  /\ GITHUB_CLIENT_SECRET = TRUE
  /\ ADMIN_GITHUB_USER \in { toLowerCase(a) : a \in AdminEnv }
  /\ SESSION_TTL_SECONDS \in 0..MaxTTL
  /\ now = 0
  /\ sessions = << >>
  /\ oauthStates = {}
  /\ nextState = 1
  /\ nextSid = 1
  /\ calls = << >>
  /\ resp = NoResp
  /\ pgClient = FALSE
  /\ boot = Booted
  /\ wizard = NoWizard
  /\ client = NoClient
  /\ file = NoFile
  /\ table = {}
  /\ nextUuid = 1
  /\ reqs = << >>
  /\ metrics_daily = {}
  /\ metrics_uniques = {}
  /\ beacons = << >>
  /\ nextVid = 1
  /\ summary = NoSummary

\* The OAuth flow: login starts and callbacks against every provider outcome.
\* No step of the flow reads the clock except to stamp exp, so the clock
\* stands still here; SpecSession runs the flow while the clock moves.
NextOAuth ==
  \/ LoginStart
  \/ \E state \in StateParams, hasCode \in BOOLEAN : CallbackArrive(state, hasCode)
  \/ \E i \in 1..MaxCalls, raw \in TokenRaws : TokenResponse(i, raw)
  \/ \E i \in 1..MaxCalls, raw \in UserRaws : UserResponse(i, raw)

SpecOAuth == Init /\ [][NextOAuth]_vars

\* Login starts and callbacks on a server whose environment sets, or does
\* not set, the client id and the client secret.
InitConfig ==
  /\ server \in Servers
  /\ GITHUB_CLIENT_ID \in BOOLEAN
  /\ GITHUB_CLIENT_SECRET \in BOOLEAN
  /\ ADMIN_GITHUB_USER = <<>>
  /\ SESSION_TTL_SECONDS = MaxTTL
  /\ now = 0
  /\ sessions = << >>
  /\ oauthStates = {}
  /\ nextState = 1
  /\ nextSid = 1
  /\ calls = << >>
  /\ resp = NoResp
  /\ pgClient = FALSE
  /\ boot = Booted
  /\ wizard = NoWizard
  /\ client = NoClient
  /\ file = NoFile
  /\ table = {}
  /\ nextUuid = 1
  /\ reqs = << >>
  /\ metrics_daily = {}
  /\ metrics_uniques = {}
  /\ beacons = << >>
  /\ nextVid = 1
  /\ summary = NoSummary

NextLogin ==
  \/ LoginStart
  \/ \E state \in StateParams, hasCode \in BOOLEAN : CallbackArrive(state, hasCode)

SpecLogin == InitConfig /\ [][NextLogin]_vars

\* Sessions: logins that the provider answers, then requests that present
\* cookies while the clock runs.
GoodTokenRaws == { r \in TokenRaws : r.access_token }

GoodUserRaws == { r \in UserRaws : r.login # <<>> }

NextSession ==
  \/ LoginStart
  \/ \E state \in 1..MaxStates : CallbackArrive(state, TRUE)
  \/ \E i \in 1..MaxCalls, raw \in GoodTokenRaws : TokenResponse(i, raw)
  \/ \E i \in 1..MaxCalls, raw \in GoodUserRaws : UserResponse(i, raw)
  \/ \E ck \in Cookies : Logout(ck)
  \/ \E ck \in Cookies : Me(ck)
  \/ Tick

SpecSession == Init /\ [][NextSession]_vars

\* The projects API, as one logged-in browser and one stranger use it: the
\* server starts on either backend, with or without a data file, and with
\* the session of a login made at start-up in the store.
AdminCookie == [ sid |-> 1, session1 |-> FALSE ]

UnknownSid == [ sid |-> MaxCalls + 1, session1 |-> FALSE ]

LegacyCookie == [ sid |-> NoSid, session1 |-> TRUE ]

ProjCookies == { NoCookies, AdminCookie, UnknownSid, LegacyCookie }

Payloads == { [ name |-> "Foo" ],
              [ id |-> IdA, type |-> "web", featured |-> TRUE,
                tags |-> TagList(<< <<"x">>, <<"y">> >>) ] }

PathIds == { NoId, IdA }

LoggedIn ==
  [ state |-> 1, hasCode |-> TRUE, pc |-> "done",
    tokenRaw |-> Raw("object", TRUE, <<>>),
    userRaw |-> Raw("object", FALSE, <<"A", "B">>),
    out |-> << redirect(<<"/">>, << cookie("sid", 1, SESSION_TTL_SECONDS) >>) >>,
    sid |-> 1, at |-> 0 ]

InitProj ==
  /\ server \in Servers
  /\ GITHUB_CLIENT_ID = TRUE
  /\ GITHUB_CLIENT_SECRET = TRUE
  /\ ADMIN_GITHUB_USER = <<>>
  /\ SESSION_TTL_SECONDS \in 0..MaxTTL
  /\ now = 0
  /\ sessions = (1 :> NewSession(<<"A", "B">>))
  /\ oauthStates = {}
  /\ nextState = 2
  /\ nextSid = 2
  /\ calls = << LoggedIn >>
  /\ resp = [ Resp("login", 302, <<"authorize">>, 1, FALSE, NoCookies) EXCEPT !.at = 0 ]
  /\ pgClient \in BOOLEAN
  /\ boot = Booted
  /\ wizard = NoWizard
  /\ client = NoClient
  /\ file \in { NoFile, FileOf(<<>>) }
  /\ table = {}
  /\ nextUuid = 1
  /\ reqs = << >>
  /\ metrics_daily = {}
  /\ metrics_uniques = {}
  /\ beacons = << >>
  /\ nextVid = 1
  /\ summary = NoSummary

NextProj ==
  \/ \E method \in Methods \ {"GET"}, id \in PathIds, ck \in ProjCookies,
        body \in Payloads : ProjArrive(method, id, ck, body)
  \/ \E id \in PathIds : ProjArrive("GET", id, NoCookies, EmptyBody)
  \/ \E i \in 1..MaxReqs : ListStep(i)
  \/ \E i \in 1..MaxReqs : ParseBody(i)
  \/ \E i \in 1..MaxReqs : ReadFile(i)
  \/ \E i \in 1..MaxReqs : WriteFile(i)
  \/ \E i \in 1..MaxReqs : Query(i)
  \/ Tick

SpecProj == InitProj /\ [][NextProj]_vars

\* The projects API as the logged-in administrator uses it: bodies whose
\* tags are a string or a list, a body naming the protected keys, and a body
\* that does not parse.
AbcTags == TagString(<< "a", ",", " ", "b", ",", "c" >>)

XyTags == TagList(<< <<"x">>, <<"y">> >>)

StoreBodies == { [ id |-> IdA, name |-> "Foo", tags |-> AbcTags ],
                 [ name |-> "Bar", tags |-> XyTags ],
                 [ id |-> <<"z">>, createdAt |-> 5, updatedAt |-> 5,
                   status |-> "done" ],
                 Malformed }

NextStore ==
  \/ \E method \in Methods \ {"GET"}, id \in PathIds, body \in StoreBodies :
       ProjArrive(method, id, AdminCookie, body)
  \/ \E id \in PathIds : ProjArrive("GET", id, NoCookies, EmptyBody)
  \/ \E i \in 1..MaxReqs : ListStep(i)
  \/ \E i \in 1..MaxReqs : ParseBody(i)
  \/ \E i \in 1..MaxReqs : ReadFile(i)
  \/ \E i \in 1..MaxReqs : WriteFile(i)
  \/ \E i \in 1..MaxReqs : Query(i)
  \/ Tick

SpecStore == InitProj /\ [][NextStore]_vars

\* View beacons: part002 on either backend, browsers with and without a
\* visitor cookie, bodies with and without a page, across midnight.
InitMetrics ==
  /\ server = "part002"
  /\ GITHUB_CLIENT_ID = TRUE
  /\ GITHUB_CLIENT_SECRET = TRUE
  /\ ADMIN_GITHUB_USER = <<>>
  /\ SESSION_TTL_SECONDS = MaxTTL
  /\ now = 0
  /\ sessions = << >>
  /\ oauthStates = {}
  /\ nextState = 1
  /\ nextSid = 1
  /\ calls = << >>
  /\ resp = NoResp
  /\ pgClient \in BOOLEAN
  /\ boot = Booted
  /\ wizard = NoWizard
  /\ client = NoClient
  /\ file = NoFile
  /\ table = {}
  /\ nextUuid = 1
  /\ reqs = << >>
  /\ metrics_daily = {}
  /\ metrics_uniques = {}
  /\ beacons = << >>
  /\ nextVid = 1
  /\ summary = NoSummary

BeaconBodies == { EmptyBody, [ page |-> "about" ], Malformed }

NextBeacon ==
  \/ \E body \in BeaconBodies, vid \in {NoVid} \cup CarriedVids :
       BeaconArrive(body, vid)
  \/ \E i \in 1..MaxBeacons : BeaconBody(i)
  \/ \E i \in 1..MaxBeacons : BeaconInsert(i)
  \/ \E i \in 1..MaxBeacons : BeaconViews(i)
  \/ \E i \in 1..MaxBeacons : BeaconUnique(i)
  \/ \E i \in 1..MaxBeacons : BeaconBump(i)
  \/ NextDay

SpecBeacon == InitMetrics /\ [][NextBeacon]_vars

\* The visitor cookie: a browser that has no vid cookie yet and one that
\* carries one send beacons for either page, across midnight.
NextVisitor ==
  \/ \E body \in BeaconBodies \ {Malformed}, vid \in {NoVid, 1} :
       BeaconArrive(body, vid)
  \/ \E i \in 1..MaxBeacons : BeaconBody(i)
  \/ \E i \in 1..MaxBeacons : BeaconInsert(i)
  \/ \E i \in 1..MaxBeacons : BeaconViews(i)
  \/ \E i \in 1..MaxBeacons : BeaconUnique(i)
  \/ \E i \in 1..MaxBeacons : BeaconBump(i)
  \/ NextDay

SpecVisitor == InitMetrics /\ [][NextVisitor]_vars

\* Summaries read while the beacons of one browser, which sends one beacon
\* at a time, are counted.
DaysParams ==
  { Absent, NotANumber, Num(-1), Num(0), Num(2), Num(3), Num(MaxWindow + 1) }

NextSummary ==
  \/ /\ \A i \in 1..Len(beacons) : beacons[i].pc = "done"
     /\ \E body \in BeaconBodies \ {Malformed} : BeaconArrive(body, 1)
  \/ \E i \in 1..MaxBeacons : BeaconBody(i)
  \/ \E i \in 1..MaxBeacons : BeaconInsert(i)
  \/ \E i \in 1..MaxBeacons : BeaconViews(i)
  \/ \E i \in 1..MaxBeacons : BeaconUnique(i)
  \/ \E i \in 1..MaxBeacons : BeaconBump(i)
  \/ NextDay
  \/ \E param \in DaysParams : SummaryArrive(param)
  \/ \E ok \in BOOLEAN : SummaryQuery(ok)

SpecSummary == InitMetrics /\ [][NextSummary]_vars

\* Summaries read over counters of more pages than the list holds: six pages
\* viewed once or twice on day 0 and possibly a seventh viewed three times,
\* each by one visitor. The page of a beacon is any string of up to 64
\* characters.
SixPages == {"home", "about", "blog", "cv", "lab", "talks"}

SeventhPages == {"projects", "constructor", ProtoKey}

Viewed(page, n) == [ day |-> 0, page |-> page, views |-> n, uniques |-> 1 ]

PageTables ==
  { { Viewed(pg, IF pg \in twice THEN 2 ELSE 1) : pg \in SixPages } \cup more :
      twice \in SUBSET {"home", "about"},
      more \in { {} } \cup { { Viewed(pg, 3) } : pg \in SeventhPages } }

InitTop ==
  /\ server = "part002"
  /\ GITHUB_CLIENT_ID = TRUE
  /\ GITHUB_CLIENT_SECRET = TRUE
  /\ ADMIN_GITHUB_USER = <<>>
  /\ SESSION_TTL_SECONDS = MaxTTL
  /\ now = 0
  /\ sessions = << >>
  /\ oauthStates = {}
  /\ nextState = 1
  /\ nextSid = 1
  /\ calls = << >>
  /\ resp = NoResp
  /\ pgClient = TRUE
  /\ boot = Booted
  /\ wizard = NoWizard
  /\ client = NoClient
  /\ file = NoFile
  /\ table = {}
  /\ nextUuid = 1
  /\ reqs = << >>
  /\ metrics_daily \in PageTables
  /\ metrics_uniques = { << r.day, r.page, 1 >> : r \in metrics_daily }
  /\ beacons = << >>
  /\ nextVid = 1
  /\ summary = NoSummary

NextTop ==
  \/ \E param \in { Absent, NotANumber, Num(MaxWindow + 1) } :
       SummaryArrive(param)
  \/ \E ok \in BOOLEAN : SummaryQuery(ok)

SpecTop == InitTop /\ [][NextTop]_vars

\* The projects API while the storage backend may fail a write: the
\* administrator creates, updates and deletes, and each file write or
\* statement either succeeds or rejects.
FaultBodies == { [ name |-> "Foo" ], [ id |-> IdA, status |-> "done" ] }

NextFault ==
  \/ \E method \in Methods \ {"GET"}, id \in PathIds, body \in FaultBodies :
       ProjArrive(method, id, AdminCookie, body)
  \/ \E i \in 1..MaxReqs : ParseBody(i)
  \/ \E i \in 1..MaxReqs : ReadFile(i)
  \/ \E i \in 1..MaxReqs : WriteFile(i)
  \/ \E i \in 1..MaxReqs : WriteFails(i)
  \/ \E i \in 1..MaxReqs : Query(i)
  \/ \E i \in 1..MaxReqs : QueryFails(i)

SpecFault == InitProj /\ [][NextFault]_vars

\* Static file requests: every path of up to MaxDepth segments over the
\* names of the machine and "..".
MaxDepth == 3

Segments == { DotDot, <<"a">>, <<"p">>, <<"p", "q">>, <<"f">> }

RECURSIVE PathsOf(_)
PathsOf(n) ==
  IF n = 0 THEN { << >> }
  ELSE PathsOf(n - 1)
         \cup { Append(path, seg) : path \in PathsOf(n - 1), seg \in Segments }

NextStatic ==
  \/ \E target \in PathsOf(MaxDepth) : Static(target, NoCookies)

SpecStatic == Init /\ [][NextStatic]_vars

\* Read-only requests alone: a server on either backend, with the session
\* of one login and the state of one started login in its stores, with or
\* without a data file and counted views, answers GET /api/me, GET
\* /api/projects, GET /api/projects/<id>, GET /api/metrics/summary and static
\* file requests while the clock runs.
InitRead ==
  /\ server \in Servers
  /\ GITHUB_CLIENT_ID = TRUE
  /\ GITHUB_CLIENT_SECRET = TRUE
  /\ ADMIN_GITHUB_USER = <<>>
  /\ SESSION_TTL_SECONDS = MaxTTL
  /\ now = 0
  /\ sessions = (1 :> NewSession(<<"A", "B">>))
  /\ oauthStates = {2}
  /\ nextState = 3
  /\ nextSid = 2
  /\ calls = << LoggedIn >>
  /\ resp = [ Resp("login", 302, <<"authorize">>, 2, FALSE, NoCookies) EXCEPT !.at = 0 ]
  /\ pgClient \in BOOLEAN
  /\ boot = Booted
  /\ wizard = NoWizard
  /\ client = NoClient
  /\ file \in { NoFile, FileOf(<<>>), FileOf(<< Seed >>) }
  /\ table = {}
  /\ nextUuid = 1
  /\ reqs = << >>
  /\ metrics_daily \in IF server = "part002" /\ pgClient
                         THEN { {}, { Viewed("home", 1) } }
                         ELSE { {} }
  /\ metrics_uniques = { << r.day, r.page, 1 >> : r \in metrics_daily }
  /\ beacons = << >>
  /\ nextVid = 1
  /\ summary = NoSummary

NextRead ==
  \/ \E ck \in { NoCookies, AdminCookie } : Me(ck)
  \/ \E id \in { NoId, SeedId } : ProjArrive("GET", id, NoCookies, EmptyBody)
  \/ \E i \in 1..MaxReqs : ListStep(i)
  \/ \E param \in { Absent, NotANumber } : SummaryArrive(param)
  \/ \E ok \in BOOLEAN : SummaryQuery(ok)
  \/ \E target \in PathsOf(1) : Static(target, NoCookies)
  \/ Tick

SpecRead == InitRead /\ [][NextRead]_vars

\* The setup script is run in a directory with or without an earlier .env
\* file, and is answered at each prompt.
OldEnv ==
  [ setupBasicConfig EXCEPT !.SESSION_SECRET = << "old" >>, !.PORT = << "8080" >> ]

OverwriteAnswers ==
  { << >>, << "y" >>, << "Y" >>, << "y", "e", "s" >>, << "Y", "E", "S" >>,
    << "y", "E", "s" >>, << "n" >>, << "N" >>, << "y", "e" >>, << " ", "y" >>,
    << "y", "e", "s", "s" >> }

YesNo == { << "y" >>, << "n" >> }

InitSetup ==
  /\ server = "nodesite"
  /\ GITHUB_CLIENT_ID = TRUE
  /\ GITHUB_CLIENT_SECRET = TRUE
  /\ ADMIN_GITHUB_USER = <<>>
  /\ SESSION_TTL_SECONDS = MaxTTL
  /\ now = 0
  /\ sessions = << >>
  /\ oauthStates = {}
  /\ nextState = 1
  /\ nextSid = 1
  /\ calls = << >>
  /\ resp = NoResp
  /\ pgClient = FALSE
  /\ boot = Booted
  /\ wizard \in { Wizard("start", env) : env \in { NoEnv, EnvOf(OldEnv) } }
  /\ client = NoClient
  /\ file = NoFile
  /\ table = {}
  /\ nextUuid = 1
  /\ reqs = << >>
  /\ metrics_daily = {}
  /\ metrics_uniques = {}
  /\ beacons = << >>
  /\ nextVid = 1
  /\ summary = NoSummary

NextSetup ==
  \/ SetupStart
  \/ \E answer \in OverwriteAnswers : AnswerOverwrite(answer)
  \/ \E answer \in YesNo : AnswerOAuth(answer)
  \/ \E answer \in { << >>, << "id" >> } : AnswerClientId(answer)
  \/ \E answer \in { << "shh" >> } : AnswerClientSecret(answer)
  \/ \E answer \in AdminEnv : AnswerAdminUser(answer)
  \/ \E answer \in YesNo, ok \in BOOLEAN : AnswerCustomize(answer, ok)
  \/ \E answer \in { << >>, << "8000" >> } : AnswerPort(answer)
  \/ \E answer \in { << >>, << "https://example.org" >> } : AnswerBaseUrl(answer)
  \/ \E answer \in { << >>, << "site" >> }, ok \in BOOLEAN : AnswerDbName(answer, ok)
  \/ SetupClosed

SpecSetup == InitSetup /\ [][NextSetup]_vars

\* The page in the browser: a document whose sections include the default
\* page, each hidden or not as the markup has it, opened with some hash and
\* followed through hash changes.
Documents(script) ==
  IF script = "script.js"
    THEN { << <<"home">>, <<"projects">> >>,
           << <<"home">>, <<"projects">>, <<"contact">> >> }
    ELSE { << <<"trading">>, <<"wallet">> >> }

Hashes ==
  { << >>, HashSlash, << "#", "home" >>, << "#", "/", "nope" >> }
    \cup { HashSlash \o name :
             name \in { <<"home">>, <<"projects">>, <<"contact">>,
                        <<"trading">>, <<"wallet">> } }

InitRoute ==
  /\ server = "nodesite"
  /\ GITHUB_CLIENT_ID = TRUE
  /\ GITHUB_CLIENT_SECRET = TRUE
  /\ ADMIN_GITHUB_USER = <<>>
  /\ SESSION_TTL_SECONDS = MaxTTL
  /\ now = 0
  /\ sessions = << >>
  /\ oauthStates = {}
  /\ nextState = 1
  /\ nextSid = 1
  /\ calls = << >>
  /\ resp = NoResp
  /\ pgClient = FALSE
  /\ boot = Booted
  /\ wizard = NoWizard
  /\ client \in { Client(script, doc, hidden) :
                   script \in Scripts,
                   doc \in Documents("script.js") \cup Documents("part_001"),
                   hidden \in [ 1..3 -> BOOLEAN ] \cup [ 1..2 -> BOOLEAN ] }
  /\ client.pages \in Documents(client.script)
  /\ Len(client.hidden) = Len(client.pages)
  /\ file = NoFile
  /\ table = {}
  /\ nextUuid = 1
  /\ reqs = << >>
  /\ metrics_daily = {}
  /\ metrics_uniques = {}
  /\ beacons = << >>
  /\ nextVid = 1
  /\ summary = NoSummary

NextRoute ==
  \/ \E hash \in Hashes : Load(hash)
  \/ \E hash \in Hashes : HashChange(hash)

SpecRoute == InitRoute /\ [][NextRoute]_vars

\* Start-up, then the projects API: the database is configured or not, the
\* connection and each create-table statement succeed or fail, and once
\* initDatabase has settled the administrator lists and creates projects.
\* Statements on a client that is not connected reject.
InitBoot ==
  /\ server \in Servers
  /\ GITHUB_CLIENT_ID = TRUE
  /\ GITHUB_CLIENT_SECRET = TRUE
  /\ ADMIN_GITHUB_USER = <<>>
  /\ SESSION_TTL_SECONDS = MaxTTL
  /\ now = 0
  /\ sessions = (1 :> NewSession(<<"A", "B">>))
  /\ oauthStates = {}
  /\ nextState = 2
  /\ nextSid = 2
  /\ calls = << LoggedIn >>
  /\ resp = [ Resp("login", 302, <<"authorize">>, 1, FALSE, NoCookies) EXCEPT !.at = 0 ]
  /\ pgClient = FALSE
  /\ boot \in { Boot(url, "start", 0, FALSE, 0) : url \in BOOLEAN }
  /\ wizard = NoWizard
  /\ client = NoClient
  /\ file \in { NoFile, FileOf(<<>>) }
  /\ table = {}
  /\ nextUuid = 1
  /\ reqs = << >>
  /\ metrics_daily = {}
  /\ metrics_uniques = {}
  /\ beacons = << >>
  /\ nextVid = 1
  /\ summary = NoSummary

Settled == boot.pc \in {"done", "failed"}

Broken == pgClient /\ ~boot.connected

NextBoot ==
  \/ BootStart
  \/ \E ok \in BOOLEAN : BootConnect(ok)
  \/ \E ok \in BOOLEAN : BootTable(ok)
  \/ Settled /\ ProjArrive("GET", NoId, NoCookies, EmptyBody)
  \/ Settled /\ ProjArrive("POST", NoId, AdminCookie, [ name |-> "Foo" ])
  \/ \E i \in 1..MaxReqs : ListStep(i)
  \/ \E i \in 1..MaxReqs : Broken /\ ListFails(i)
  \/ \E i \in 1..MaxReqs : ParseBody(i)
  \/ \E i \in 1..MaxReqs : ReadFile(i)
  \/ \E i \in 1..MaxReqs : WriteFile(i)
  \/ \E i \in 1..MaxReqs : Query(i)
  \/ \E i \in 1..MaxReqs : Broken /\ QueryFails(i)

SpecBoot == InitBoot /\ [][NextBoot]_vars

\* Requests as they come off the wire: paths with and without percent
\* escapes, Cookie headers with plain, quoted and badly escaped values, from
\* strangers and from a browser that logged in.
Urls == { << >>, << <<"f">> >>, << <<"%", "4", "1">> >>, << <<"%", "z">> >>,
          << <<"f">>, <<"%">> >> }

PlainSid == Pair("sid", << "1" >>)

Headers == { << >>, << PlainSid >>, << Pair("session", << "1" >>) >>,
             << Pair("theme", << "\"", "d", "\"" >>) >>,
             << Pair("x", << "%", "z" >>) >>,
             << PlainSid, Pair("x", << "%", "4", "1" >>) >>,
             << PlainSid, Pair("theme", << "\"", "d", "\"" >>) >> }

NextRequest ==
  \/ LoginStart
  \/ \E state \in 1..MaxStates : CallbackArrive(state, TRUE)
  \/ \E i \in 1..MaxCalls, raw \in GoodTokenRaws : TokenResponse(i, raw)
  \/ \E i \in 1..MaxCalls, raw \in GoodUserRaws : UserResponse(i, raw)
  \/ \E url \in Urls, header \in Headers : Request(url, header)

SpecRequest == Init /\ [][NextRequest]_vars

\* The file backend under concurrent mutations: the data file holds the
\* sample record, and the administrator's creates, updates and deletes of
\* it are in flight together.
RaceBodies == { [ id |-> IdA ], [ name |-> "Foo" ] }

InitRace ==
  /\ server \in Servers
  /\ GITHUB_CLIENT_ID = TRUE
  /\ GITHUB_CLIENT_SECRET = TRUE
  /\ ADMIN_GITHUB_USER = <<>>
  /\ SESSION_TTL_SECONDS = MaxTTL
  /\ now = 0
  /\ sessions = (1 :> NewSession(<<"A", "B">>))
  /\ oauthStates = {}
  /\ nextState = 2
  /\ nextSid = 2
  /\ calls = << LoggedIn >>
  /\ resp = [ Resp("login", 302, <<"authorize">>, 1, FALSE, NoCookies) EXCEPT !.at = 0 ]
  /\ pgClient = FALSE
  /\ boot = Booted
  /\ wizard = NoWizard
  /\ client = NoClient
  /\ file = [ exists |-> TRUE, list |-> << Seed >> ]
  /\ table = {}
  /\ nextUuid = 1
  /\ reqs = << >>
  /\ metrics_daily = {}
  /\ metrics_uniques = {}
  /\ beacons = << >>
  /\ nextVid = 1
  /\ summary = NoSummary

NextRace ==
  \/ \E body \in RaceBodies : ProjArrive("POST", NoId, AdminCookie, body)
  \/ \E body \in RaceBodies : ProjArrive("PUT", SeedId, AdminCookie, body)
  \/ ProjArrive("DELETE", SeedId, AdminCookie, EmptyBody)
  \/ \E i \in 1..MaxReqs : ParseBody(i)
  \/ \E i \in 1..MaxReqs : ReadFile(i)
  \/ \E i \in 1..MaxReqs : WriteFile(i)

SpecRace == InitRace /\ [][NextRace]_vars

\* Every method on every API path, from a stranger and from a browser that
\* logged in.
NextRouter ==
  \/ LoginStart
  \/ \E state \in 1..MaxStates : CallbackArrive(state, TRUE)
  \/ \E i \in 1..MaxCalls, raw \in GoodTokenRaws : TokenResponse(i, raw)
  \/ \E i \in 1..MaxCalls, raw \in GoodUserRaws : UserResponse(i, raw)
  \/ \E method \in Methods, path \in ApiPaths, ck \in { NoCookies, AdminCookie } :
       Dispatch(method, path, ck)

SpecRouter == Init /\ [][NextRouter]_vars

\* ------------------------------------------------------------ OAuth claims
Accepted(c) == c.pc # "done" \/ c.tokenRaw # NoRaw

Issued == 1..(nextState - 1)

CallIds == 1..Len(calls)

\* C1: a session is only ever added by a callback whose state value was
\* issued by a login start and was still pending when it arrived; no two
\* callbacks that got past the state check, and so no two sessions, share a
\* state value.
C1_StateAdmitsOneSession ==
  /\ \A s \in DOMAIN sessions : \E i \in CallIds : calls[i].sid = s
  /\ \A i \in CallIds :
       calls[i].sid # NoSid => Accepted(calls[i]) /\ calls[i].hasCode
  /\ \A i \in CallIds : Accepted(calls[i]) => calls[i].state \in Issued
  /\ \A i, j \in CallIds :
       i # j /\ Accepted(calls[i]) /\ Accepted(calls[j])
         => calls[i].state # calls[j].state

\* Two callbacks carried the same issued state: one created a session, the
\* other was turned away at the state check.
C1_Witness ==
  \E i, j \in CallIds :
    /\ i # j
    /\ calls[i].state = calls[j].state
    /\ calls[i].sid \in DOMAIN sessions
    /\ calls[j].hasCode
    /\ calls[j].out = << LoginError("oauth_state") >>

\* C3 (as claimed): a callback that arrives with a state value in the pending
\* set removes that value from the pending set, whatever its outcome.
C3_ConsumedWhateverOutcome ==
  [][ ( /\ Len(calls') = Len(calls) + 1
        /\ calls'[Len(calls')].state \in oauthStates )
      => calls'[Len(calls')].state \notin oauthStates' ]_vars

EqualsIgnoreCase(a, b) ==
  /\ Len(a) = Len(b)
  /\ \A k \in 1..Len(a) : LowerChar[a[k]] = LowerChar[b[k]]

\* C6: with an allow-list configured, every stored session belongs to a user
\* whose name equals the allow-listed name ignoring case, and a callback whose
\* profile names any other user answers error `unauthorized` with no session.
C6_AllowListOnly ==
  ADMIN_GITHUB_USER # <<>> =>
    /\ \A s \in DOMAIN sessions :
         EqualsIgnoreCase(sessions[s].user.username, ADMIN_GITHUB_USER)
    /\ \A i \in CallIds :
         ( /\ calls[i].userRaw.kind = "object"
           /\ calls[i].userRaw.login # <<>>
           /\ ~EqualsIgnoreCase(calls[i].userRaw.login, ADMIN_GITHUB_USER) )
         => /\ calls[i].out = << LoginError("unauthorized") >>
            /\ calls[i].sid = NoSid

\* With the allow-list set, a user whose name differs from it only in case
\* holds a session and another user's callback was answered `unauthorized`.
C6_Witness ==
  /\ ADMIN_GITHUB_USER # <<>>
  /\ \E s \in DOMAIN sessions : sessions[s].user.username # ADMIN_GITHUB_USER
  /\ \E i \in CallIds : calls[i].out = << LoginError("unauthorized") >>

\* The error tags a failed callback may carry, from what the request and the
\* provider gave it.  An unparsable or null body counts either as the step's
\* own failure or as an exception in the outbound call.
ExpectedTags(c) ==
  IF c.tokenRaw = NoRaw THEN {"oauth_state"}
  ELSE IF c.userRaw = NoRaw
    THEN CASE c.tokenRaw.kind = "neterr" -> {"oauth_error"}
           [] c.tokenRaw.kind = "object" -> {"oauth_token"}
           [] OTHER -> {"oauth_token", "oauth_error"}
    ELSE CASE c.userRaw.kind = "neterr" -> {"oauth_error"}
           [] c.userRaw.kind = "object" /\ c.userRaw.login = <<>> -> {"oauth_user"}
           [] c.userRaw.kind = "object" -> {"unauthorized"}
           [] OTHER -> {"oauth_user", "oauth_error"}

\* C7: a callback that fails at any step is answered exactly once, by a
\* redirect to the login prompt whose error tag names the failing step, and
\* it creates no session; no callback is ever answered twice.
C7_FailureRedirectsOnce ==
  /\ \A i \in CallIds :
       /\ Len(calls[i].out) <= 1
       /\ (calls[i].pc = "done") = (Len(calls[i].out) = 1)
       /\ calls[i].pc = "done" /\ calls[i].sid = NoSid =>
            \E tag \in ExpectedTags(calls[i]) :
              calls[i].out[1] = [ status |-> 302,
                                  location |-> <<"/?login=1&error=", tag>>,
                                  cookies |-> <<>> ]
  /\ Cardinality(DOMAIN sessions)
       = Cardinality({ i \in CallIds : calls[i].sid # NoSid })

\* Callbacks have failed at the token exchange and at the allow-list check.
C7_Witness ==
  /\ \E i \in CallIds : calls[i].out = << LoginError("oauth_token") >>
  /\ \E i \in CallIds : calls[i].out = << LoginError("unauthorized") >>

\* C8 (as claimed): a callback that passes every step has created one session
\* with exp = creation time + TTL, answered with a redirect to the home page
\* and one HttpOnly, SameSite=Lax sid cookie whose Max-Age is the TTL.
C8_SessionCookieMaxAge ==
  \A i \in CallIds : calls[i].sid # NoSid =>
    /\ calls[i].sid \in DOMAIN sessions
    /\ sessions[calls[i].sid].exp
         = calls[i].at + SESSION_TTL_SECONDS * MsPerSecond
    /\ calls[i].out = << [ status |-> 302, location |-> <<"/">>,
         cookies |-> << [ name |-> "sid", val |-> calls[i].sid, path |-> "/",
                          httpOnly |-> TRUE, sameSite |-> "Lax",
                          maxAge |-> SESSION_TTL_SECONDS ] >> ] >>

\* C24 (as claimed): a login start on a server without client id or without
\* client secret is answered 400 or 500, with no redirect and the pending set
\* as it was; on a configured server it adds exactly one token, never issued
\* before, to the pending set and redirects to the provider with that token.
C24_LoginStartNeedsConfig ==
  [][ resp' # resp /\ resp'.route = "login"
      => IF ~GITHUB_CLIENT_ID \/ ~GITHUB_CLIENT_SECRET
           THEN /\ resp'.status \in {400, 500}
                /\ resp'.location = <<>>
                /\ oauthStates' = oauthStates
           ELSE /\ resp'.status = 302
                /\ resp'.location = <<"authorize">>
                /\ resp'.state \notin Issued
                /\ resp'.state \notin oauthStates
                /\ oauthStates' = oauthStates \cup { resp'.state }
    ]_vars

\* ---------------------------------------------------------- session claims
\* C4 (as claimed): once a logout request carrying the sid of a live session
\* has been answered, that sid names no session: a request presenting only
\* that sid is unauthenticated, even before the session's exp.
C4_LogoutDestroysSession ==
  resp.route = "logout" /\ resp.authed /\ ~resp.session1
    => /\ resp.sid \notin DOMAIN sessions
       /\ ~isAuthed([ sid |-> resp.sid, session1 |-> FALSE ])

\* C5 (as claimed): a request that arrives later than the exp of the session
\* its sid names is unauthenticated.
C5_ExpiredIsUnauthenticated ==
  ( /\ resp.route = "me"
    /\ resp.sid \in DOMAIN sessions
    /\ resp.at > sessions[resp.sid].exp )
  => ~resp.authed

\* C23 (as claimed): GET /api/me answers 200, with authed true and the
\* session's user exactly when the request's sid names a stored session that
\* has not expired, with authed false and no user otherwise, and the session
\* store is as it was.
C23_MeReportsSession ==
  [][ resp' # resp /\ resp'.route = "me"
      => /\ resp'.status = 200
         /\ resp'.authed
              = (resp'.sid \in DOMAIN sessions /\ sessions[resp'.sid].exp > now)
         /\ resp'.authed => resp'.user = sessions[resp'.sid].user
         /\ ~resp'.authed => resp'.user = None
         /\ sessions' = sessions
    ]_vars

\* ---------------------------------------------------------- projects claims
\* A well-formed create, update or delete request of both revisions
IsMutation(r) ==
  \/ r.method = "POST" /\ r.id = NoId
  \/ r.method \in {"PUT", "DELETE"} /\ r.id # NoId

\* The sid the request carried named a stored session that had not expired
\* when the request arrived.
ValidAtArrival(r) ==
  r.ck.sid \in DOMAIN sessions /\ sessions[r.ck.sid].exp > r.at

ReqIds == 1..Len(reqs)

\* C2 (as claimed): a create, update or delete request that arrives without
\* the sid of a stored, unexpired session is answered 401, whatever other
\* cookie it carries.
C2_NoSessionIs401 ==
  \A i \in ReqIds :
    IsMutation(reqs[i]) /\ ~ValidAtArrival(reqs[i]) => reqs[i].status = 401

Answered(i) == i \in ReqIds /\ reqs[i].status = 0 /\ reqs'[i].status # 0

Count(list, id) == Cardinality({ k \in 1..Len(list) : list[k].id = id })

\* C9 (as claimed): when a create is answered 201, the list read next holds
\* exactly one record with the created id, and its createdAt equals its
\* updatedAt; also when the payload names an id already in storage.
C9_CreateThenListOnce ==
  [][ \A i \in 1..MaxReqs :
        Answered(i) /\ reqs[i].method = "POST" /\ reqs'[i].status = 201
        => /\ Count(readProjects', reqs'[i].result.id) = 1
           /\ \A k \in 1..Len(readProjects') :
                readProjects'[k].id = reqs'[i].result.id
                  => readProjects'[k].createdAt = readProjects'[k].updatedAt
    ]_vars

\* C10 (as claimed): an authenticated update or delete of an id that storage
\* does not hold is answered 404 and leaves the stored list as it was.
C10_AbsentIdIs404 ==
  [][ \A i \in 1..MaxReqs :
        ( /\ Answered(i)
          /\ reqs[i].method \in {"PUT", "DELETE"}
          /\ reqs[i].id \notin Ids(readProjects) )
        => /\ reqs'[i].status = 404
           /\ readProjects' = readProjects
    ]_vars

\* The first stored record with the given id, as a list request reads it
Stored(id) == readProjects[FindIndex(readProjects, id)]

\* C11 (as claimed): a PATCH of a stored project that is answered 200 leaves
\* the record's id and createdAt as they were, does not move updatedAt back,
\* and leaves every field the body does not name as it was, whatever keys
\* the body names.
C11_PatchChangesOnlyNamed ==
  [][ \A i \in 1..MaxReqs :
        ( /\ Answered(i)
          /\ reqs[i].method = "PATCH"
          /\ reqs[i].id \in Ids(readProjects)
          /\ reqs'[i].status = 200 )
        => /\ reqs[i].id \in Ids(readProjects')
           /\ Stored(reqs[i].id)'.id = Stored(reqs[i].id).id
           /\ Stored(reqs[i].id)'.createdAt = Stored(reqs[i].id).createdAt
           /\ Stored(reqs[i].id)'.updatedAt >= Stored(reqs[i].id).updatedAt
           /\ \A f \in DOMAIN Stored(reqs[i].id) :
                f \notin DOMAIN reqs[i].data \cup {"updatedAt"}
                  => Stored(reqs[i].id)'[f] = Stored(reqs[i].id)[f]
    ]_vars

\* C12 (as claimed): no two stored records have the same id, and when a
\* create is answered 201 storage holds the record the answer carries.
C12_UniqueIdsCreatedStored ==
  [][ /\ \A j, k \in 1..Len(readProjects') :
           j # k => readProjects'[j].id # readProjects'[k].id
      /\ \A i \in 1..MaxReqs :
           Answered(i) /\ reqs[i].method = "POST" /\ reqs'[i].status = 201
           => \E k \in 1..Len(readProjects') :
                /\ readProjects'[k].id = reqs'[i].result.id
                /\ readProjects'[k].name = reqs'[i].result.name
                /\ readProjects'[k].createdAt = reqs'[i].result.createdAt
    ]_vars

\* C13 (as claimed): the list a list request reads is in descending order of
\* updatedAt, on either backend.
C13_ListByUpdatedAtDesc ==
  \A j, k \in 1..Len(readProjects) :
    j < k => readProjects[j].updatedAt >= readProjects[k].updatedAt

\* The tags of the body as the spec says they read back
ReadBack(tags) ==
  IF tags = AbcTags THEN TagList(<< <<"a">>, <<"b">>, <<"c">> >>) ELSE tags

\* C14 (as claimed): when a create whose body gives tags as the string
\* "a, b,c" or as a list is answered 201, the answer and the record read next
\* carry the list ["a","b","c"], or the list given.
C14_TagsRoundTrip ==
  [][ \A i \in 1..MaxReqs :
        ( /\ Answered(i)
          /\ reqs[i].method = "POST"
          /\ reqs'[i].status = 201
          /\ Has(reqs[i].data, "tags") )
        => /\ reqs'[i].result.tags = ReadBack(reqs[i].data.tags)
           /\ \A k \in 1..Len(readProjects') :
                ( /\ readProjects'[k].id = reqs'[i].result.id
                  /\ readProjects'[k].createdAt = reqs'[i].result.createdAt )
                => readProjects'[k].tags = ReadBack(reqs[i].data.tags)
    ]_vars

\* C20 (as claimed): an authenticated create, or update of a stored project,
\* whose body does not parse is answered 400, and the step that answers it
\* leaves the stored list as it was.
C20_MalformedIs400 ==
  [][ \A i \in 1..MaxReqs :
        ( /\ Answered(i)
          /\ IsMutation(reqs[i])
          /\ reqs[i].method = "POST" \/ reqs[i].id \in Ids(readProjects)
          /\ reqs[i].method \in {"POST", "PUT"}
          /\ reqs[i].authed
          /\ reqs[i].body = Malformed )
        => /\ reqs'[i].status = 400
           /\ readProjects' = readProjects
    ]_vars

\* C21 (as claimed): a create, update or delete whose file write or database
\* statement fails is answered 500, with the error's message as the body.
C21_WriteFailureIs500 ==
  \A i \in ReqIds :
    reqs[i].pc = "done" /\ reqs[i].result \in WriteErrors
      => reqs[i].status = 500

\* ----------------------------------------------------------- start-up claims
\* C25 (as claimed): when the connection to the database fails at start-up,
\* initDatabase gives up only after it has tried to connect more than once.
C25_ConnectionRetried ==
  boot.pc = "failed" /\ ~boot.connected => boot.attempts > 1

\* ------------------------------------------------------------ request claims
\* C26 (as claimed): every request the handler has taken is answered with a
\* status code, whatever its path and its Cookie header hold.
C26_EveryRequestAnswered ==
  resp.route # "none" => resp.status # 0

\* ------------------------------------------------------------ static claims
\* The path lies in the public directory (or is the directory itself)
Inside(path) ==
  Len(path) >= Len(PUBLIC_DIR) /\ SubSeq(path, 1, Len(PUBLIC_DIR)) = PUBLIC_DIR

\* C22 (as claimed): the file static handling sends lies inside the public
\* directory, and a request path that resolves outside it is answered 400
\* with no file sent.
C22_StaticStaysInRoot ==
  resp.route = "static" =>
    /\ resp.served # << >> => Inside(resp.served)
    /\ ~Inside(Joined(PUBLIC_DIR, resp.target))
         => resp.status = 400 /\ resp.served = << >>

\* C28 (as claimed): when the write of a request that arrived with the sid
\* of a stored, unexpired session changes project storage, that session is
\* still stored and unexpired at the moment of the write.
C28_SessionValidAtWrite ==
  [][ \A i \in 1..MaxReqs :
        ( /\ i \in ReqIds
          /\ reqs[i].pc \in {"write", "query"}
          /\ reqs'[i].pc = "done"
          /\ ValidAtArrival(reqs[i])
          /\ file' # file \/ table' # table )
        => /\ reqs[i].ck.sid \in DOMAIN sessions
           /\ sessions[reqs[i].ck.sid].exp > now
    ]_vars

\* The document a mutation leaves when it runs alone on a document
Serial(r, list) ==
  CASE r.method = "POST" ->
         IF server = "nodesite" THEN << r.item >> \o list ELSE Append(list, r.item)
    [] r.method = "DELETE" -> Without(list, r.id)
    [] OTHER -> [ list EXCEPT ![FindIndex(list, r.id)] =
                    Spread(list[FindIndex(list, r.id)], r.data, r.id) ]

\* The mutation is answered with success when it runs alone on a document
SerialOk(r, list) ==
  r.method \in {"PUT", "PATCH"} => FindIndex(list, r.id) # 0

Succeeded(r) == r.pc = "done" /\ r.status \in {200, 201, 204}

\* The two mutations applied one after the other, first i and then j, to
\* the document the server started with
InOrder(i, j) ==
  /\ SerialOk(reqs[i], << Seed >>)
  /\ SerialOk(reqs[j], Serial(reqs[i], << Seed >>))
  /\ file.list = Serial(reqs[j], Serial(reqs[i], << Seed >>))

\* C27 (as claimed): when two mutations of the file backend were received
\* and both are answered with success, the stored document is the one that
\* applying them one after the other, in one of the two orders, leaves.
C27_SerialOutcome ==
  Len(reqs) = 2 /\ Succeeded(reqs[1]) /\ Succeeded(reqs[2])
    => InOrder(1, 2) \/ InOrder(2, 1)

\* C27 (amended): the write of a mutation that is answered with success
\* replaces the stored document by that mutation applied to the document as
\* the request read it, whatever was written since: the last write wins.
C27_LastWriteWins ==
  [][ \A i \in 1..MaxReqs :
        Answered(i) /\ reqs[i].pc = "write" /\ Succeeded(reqs'[i])
        => /\ SerialOk(reqs[i], reqs[i].base)
           /\ file'.list = Serial(reqs[i], reqs[i].base)
    ]_vars

\* Two creates were both answered 201 and the stored document holds the
\* record of only one of them.
C27_Witness ==
  \E i, j \in ReqIds :
    /\ i # j
    /\ reqs[i].method = "POST" /\ reqs[j].method = "POST"
    /\ reqs[i].status = 201 /\ reqs[j].status = 201
    /\ reqs[i].item.id # reqs[j].item.id
    /\ reqs[i].item.id \notin Ids(file.list)
    /\ reqs[j].item.id \in Ids(file.list)

\* ----------------------------------------------------------- metrics claims
\* The counters a summary reads for a (day, page): zero when there is no row
Counter(day, page) ==
  IF \E r \in metrics_daily : At(r, day, page)
    THEN CHOOSE r \in metrics_daily : At(r, day, page)
    ELSE Row(day, page)

\* The beacons received for a (day, page): their body has been read
BeaconsFor(day, page) ==
  { i \in 1..Len(beacons) :
      /\ beacons[i].pc # "body"
      /\ beacons[i].status # 500
      /\ beacons[i].day = day
      /\ beacons[i].page = page }

AllBeaconsDone == \A i \in 1..Len(beacons) : beacons[i].pc = "done"

Resolved29(b) == b.pc # "body" /\ b.status # 500

\* The visitor ids recorded for a (day, page)
Visitors(day, page) ==
  { t[3] : t \in { u \in metrics_uniques : u[1] = day /\ u[2] = page } }

SummaryAnswered == summary' # summary /\ summary'.pc = "done"

\* The sum over the pages of one day's counters
DayTotal(day, col) == Counter(day, "home")[col] + Counter(day, "about")[col]

WindowAnswered(q) ==
  LET n == Clamp(q.param)
  IN /\ Len(q.labels) = n
     /\ Len(q.views) = n
     /\ Len(q.uniques) = n
     /\ \A k \in 1..n :
          /\ q.labels[k] = q.at - n + k
          /\ q.views[k] = DayTotal(q.at - n + k, "views")
          /\ q.uniques[k] = DayTotal(q.at - n + k, "uniques")

NothingCounted == ~pgClient \/ metrics_daily = {}

C30_WindowClamped ==
  summary.pc = "done" /\ ~summary.failed =>
    /\ Len(summary.labels) >= 1
    /\ Len(summary.labels) <= MaxWindow

\* The views of a page over the days of a summary's window
WindowViews(q, page) ==
  ColumnSum({ r \in RowsBetween(q.labels) : r.page = page }, "views")

\* C31: the pages list of a summary holds at most 6 entries, each a page
\* counted in the window with its total views over the window, in descending
\* order of total views, and no page left out of the list has more views in
\* the window than a page that is in it.
C31_TopPagesByViews ==
  summary.pc = "done" /\ ~summary.failed =>
    LET L == summary.pages
        Counted == { r.page : r \in RowsBetween(summary.labels) }
        Listed == { L[k][1] : k \in 1..Len(L) }
    IN /\ Len(L) <= TopN
       /\ \A k \in 1..Len(L) :
            /\ L[k][1] \in Counted
            /\ L[k][2] = Total(WindowViews(summary, L[k][1]))
       /\ \A j, k \in 1..Len(L) :
            j < k => WindowViews(summary, L[j][1]) >= WindowViews(summary, L[k][1])
       /\ \A pg \in Counted \ Listed :
            \A k \in 1..Len(L) :
              WindowViews(summary, pg) <= WindowViews(summary, L[k][1])

\* C32: a read-only request (GET /api/me, GET /api/projects, GET
\* /api/projects/<id>, GET /api/metrics/summary, a static file request)
\* leaves the session store, the pending OAuth states, the project records
\* and the metrics counters as they were.
C32_ReadsChangeNothing ==
  [][ /\ sessions' = sessions
      /\ oauthStates' = oauthStates
      /\ file' = file
      /\ table' = table
      /\ metrics_daily' = metrics_daily
      /\ metrics_uniques' = metrics_uniques ]_vars

\* C33: once initDatabase has failed, on the connection or on a create-table
\* statement, no database client is in use, and no projects request (they
\* all arrive later) waits for a statement or is answered with a database
\* error.
C33_FailedInitFallsBackToFile ==
  boot.pc = "failed" =>
    /\ ~pgClient
    /\ \A i \in 1..Len(reqs) :
         /\ reqs[i].pc # "query"
         /\ reqs[i].result # Failure("db")

\* The answers that consent: y or yes in any letter case
Consent(answer) == toLowerCase(answer) \in { << "y" >>, << "y", "e", "s" >> }

\* C34: the setup script writes the .env file only when it found none or
\* the overwrite question was answered y or yes, in any letter case; after
\* any other answer the run has stopped with no configuration built and the
\* file as it was.
C34_EnvWrittenOnlyWithConsent ==
  /\ wizard.pc # "start"
       /\ wizard.env # (IF wizard.found THEN EnvOf(OldEnv) ELSE NoEnv)
       => /\ wizard.pc = "done"
          /\ wizard.env = EnvOf(wizard.config)
          /\ wizard.found => wizard.asked /\ Consent(wizard.overwrite)
  /\ wizard.asked /\ ~Consent(wizard.overwrite)
       => /\ wizard.pc = "cancelled"
          /\ wizard.config = NoConfig
          /\ wizard.env = EnvOf(OldEnv)

\* An earlier .env file was found, the question answered YES, and the file
\* overwritten with the new configuration.
C34_Witness ==
  /\ wizard.found
  /\ wizard.overwrite = << "Y", "E", "S" >>
  /\ wizard.pc = "done"
  /\ wizard.env = EnvOf(wizard.config)
  /\ wizard.env # EnvOf(OldEnv)

\* The sections that are shown
Visible == { k \in 1..Len(client.pages) : ~client.hidden[k] }

\* C35: once setRoute has run, exactly one section is shown, whatever the
\* hash, and it is the default page when the hash is empty.
C35_ExactlyOneSectionVisible ==
  client.pc = "ready" =>
    /\ Cardinality(Visible) = 1
    /\ client.hash = << >> =>
         \A k \in Visible : client.pages[k] = DefaultPage(client.script)

\* ------------------------------------------------------------ router claims
\* The methods the interface table gives each API path (and GET of one
\* project)
Supported(method, path) ==
  CASE path.base = "/api/me" -> method = "GET"
    [] path.base = "/api/metrics/view" -> method = "POST"
    [] path.base = "/api/metrics/summary" -> method = "GET"
    [] path.base = "/api/projects" /\ path.id = NoId -> method \in {"GET", "POST"}
    [] OTHER -> method \in {"GET", "PUT", "PATCH", "DELETE"}

\* C19 (as claimed): a request to an API path with a method the path does
\* not support is answered 405 by an API branch, never by static handling,
\* authenticated or not.
C19_UnsupportedIs405 ==
  resp.method # "" /\ ~Supported(resp.method, resp.path)
    => resp.status = 405 /\ resp.route # "static"

====
